---- MODULE Spec2Model ----
(***************************************************************************)
(* Block lifecycle engine of go-nebulas (core/block.go).                   *)
(*                                                                         *)
(* State: the chain-tail block `parent`, one block object `block` that is  *)
(* built on it (NewBlock .. CollectTransactions .. Seal) and then re-bound *)
(* and verified (LinkParentBlock, VerifyExecution), the shared transaction *)
(* pool `pool`, and `ret`, the observable result of the last call.         *)
(*                                                                         *)
(* Wire framer of the p2p net service (net/p2p/net_service.go): `net` is   *)
(* one message on its way from a sending node to a receiving node.         *)
(*                                                                         *)
(* Hashes are modelled as tagged tuples of the hashed fields (an injective *)
(* digest).  Balances are counted in units of 10^16.                       *)
(***************************************************************************)
EXTENDS Integers, Sequences, FiniteSets, TLC

VARIABLES block, parent, pool, ret, net

vars == <<block, parent, pool, ret, net>>

(***************************************************************************)
(* Bounds of the model.                                                    *)
(***************************************************************************)
MaxNonce == 1
MaxTime == 2
MaxCollect == 2
MaxPool == 2
MaxMint == 3
MaxEvents == 3
MaxLen == 2
MaxHi == 1

(***************************************************************************)
(* Program constants.                                                      *)
(***************************************************************************)
BlockReward == 48
DynastyInterval == 2

Nil == "nil"
Miners == {"A"}
ChainID == 1

ErrDoubleSealBlock == "ErrDoubleSealBlock"
ErrLinkToWrongParentBlock == "ErrLinkToWrongParentBlock"
ErrCloneAccountState == "ErrCloneAccountState"
ErrCloneTxsState == "ErrCloneTxsState"
ErrCloneEventsState == "ErrCloneEventsState"
ErrGenerateNextDynastyContext == "ErrGenerateNextDynastyContext"
ErrLoadNextDynastyContext == "ErrLoadNextDynastyContext"
ErrDuplicatedTransaction == "ErrDuplicatedTransaction"
ErrSmallTransactionNonce == "ErrSmallTransactionNonce"
ErrLargeTransactionNonce == "ErrLargeTransactionNonce"
ErrInvalidChainID == "ErrInvalidChainID"
ErrInvalidBlockHash == "ErrInvalidBlockHash"
ErrInvalidBlockStateRoot == "ErrInvalidBlockStateRoot"
ErrInvalidBlockTxsRoot == "ErrInvalidBlockTxsRoot"
ErrInvalidBlockEventsRoot == "ErrInvalidBlockEventsRoot"
ErrInvalidBlockDposContextRoot == "ErrInvalidBlockDposContextRoot"

(***************************************************************************)
(* Transactions.  `vmErr` says whether the executor fails on the           *)
(* transaction after it has already mutated the state.                     *)
(***************************************************************************)
Tx(h, from, to, nonce, value, type, vmErr) ==
    [hash |-> h, from |-> from, to |-> to, nonce |-> nonce, value |-> value,
     type |-> type, vmErr |-> vmErr]

Txs ==
    { Tx("t0", "B", "A", 1, 1, "binary", FALSE),
      Tx("t1", "A", "B", 1, 1, "call", FALSE),
      Tx("t2", "A", "B", 2, 1, "binary", FALSE),
      Tx("t3", "A", "B", 1, 1, "call", TRUE),
      Tx("t4", "A", "B", 3, 1, "binary", FALSE),
      Tx("t5", "C", "A", 1, 1, "binary", FALSE) }

TxHashes(txs) == [i \in 1..Len(txs) |-> txs[i].hash]

(***************************************************************************)
(* Overlay tries (trie.BatchTrie, state.AccountState): content `cur`, the  *)
(* content saved by BeginBatch, and whether a batch is open.  A nil        *)
(* pointer is an overlay with valid = FALSE.  misuse records that          *)
(* BeginBatch was called with a batch open, or Commit or RollBack with     *)
(* none.                                                                   *)
(***************************************************************************)
(* Bind(v, F) is F(v), with v evaluated once. *)
Bind(v, F(_)) == CHOOSE y \in {F(x) : x \in {v}} : TRUE

Put(f, k, v) == [x \in (DOMAIN f) \cup {k} |-> IF x = k THEN v ELSE f[x]]

EmptyContent == [x \in {} |-> 0]

Overlay(content) ==
    [valid |-> TRUE, cur |-> content, saved |-> content, batch |-> FALSE,
     misuse |-> FALSE]

NilOverlay ==
    [valid |-> FALSE, cur |-> EmptyContent, saved |-> EmptyContent, batch |-> FALSE,
     misuse |-> FALSE]

BeginBatch(t) ==
    IF t.batch THEN [t EXCEPT !.misuse = TRUE]
    ELSE [t EXCEPT !.saved = t.cur, !.batch = TRUE]

Commit(t) == [t EXCEPT !.saved = t.cur, !.batch = FALSE, !.misuse = @ \/ ~t.batch]

RollBack(t) ==
    IF t.batch THEN [t EXCEPT !.cur = t.saved, !.batch = FALSE]
    ELSE [t EXCEPT !.misuse = TRUE]

Clone(t) == Overlay(t.cur)

RootHash(t) == <<"root", t.cur>>

(***************************************************************************)
(* Account state view.                                                     *)
(***************************************************************************)
GetOrCreateUserAccount(acc, addr) ==
    IF addr \in DOMAIN acc.cur THEN acc
    ELSE [acc EXCEPT !.cur = Put(@, addr, [balance |-> 0, nonce |-> 0])]

AccNonce(acc, addr) ==
    IF addr \in DOMAIN acc.cur THEN acc.cur[addr].nonce ELSE 0

AccBalance(acc, addr) ==
    IF addr \in DOMAIN acc.cur THEN acc.cur[addr].balance ELSE 0

AddBalance(acc, addr, v) ==
    LET a == GetOrCreateUserAccount(acc, addr)
    IN  [a EXCEPT !.cur[addr].balance = @ + v]

SubBalance(acc, addr, v) ==
    LET a == GetOrCreateUserAccount(acc, addr)
    IN  [a EXCEPT !.cur[addr].balance = @ - v]

IncrNonce(acc, addr) ==
    LET a == GetOrCreateUserAccount(acc, addr)
    IN  [a EXCEPT !.cur[addr].nonce = @ + 1]

(***************************************************************************)
(* Encodings and hashes.                                                   *)
(***************************************************************************)
FromInt64(n) == <<"i64", n>>
FromUint64(n) == <<"u64", n>>
FromUint32(n) == <<"u32", n>>

DposToProto(d) == [DynastyRoot |-> <<"root", d.cur.dynasty>>,
                   MintCntRoot |-> <<"root", d.cur.mintCnt>>]

EmptyDposProto == [DynastyRoot |-> <<>>, MintCntRoot |-> <<>>]

DposContextHashOf(proto) == <<"sha3", proto.DynastyRoot, proto.MintCntRoot>>

DposContextHash(b) == DposContextHashOf(b.header.dposContext)

DposRootHash(d) == DposContextHashOf(DposToProto(d))

HashBlock(b) ==
    <<"sha3", b.header.parentHash, b.header.stateRoot, b.header.txsRoot,
      b.header.eventsRoot, DposContextHash(b), FromUint64(b.header.nonce),
      b.header.coinbase, FromInt64(b.header.timestamp),
      FromUint32(b.header.chainID), TxHashes(b.transactions)>>

(***************************************************************************)
(* Events trie: key <<txHash, index>> -> event.                            *)
(***************************************************************************)
EventCount(trie, txHash) == Cardinality({k \in DOMAIN trie.cur : k[1] = txHash})

JsonMarshal(event) == <<"json", event.Topic, event.Data>>

JsonUnmarshal(bytes) == [Topic |-> bytes[2], Data |-> bytes[3]]

(* Variant of recordEvent that counts the events of every transaction. *)
recordEvent_CountsAll(b, txHash, event) ==
    LET cnt == Cardinality(DOMAIN b.eventsTrie.cur) + 1
        key == <<txHash, FromInt64(cnt)>>
    IN  [b EXCEPT !.eventsTrie.cur = Put(@, key, JsonMarshal(event))]

recordEvent(b, txHash, event) ==
    LET cnt == EventCount(b.eventsTrie, txHash) + 1
        key == <<txHash, FromInt64(cnt)>>
    IN  [b EXCEPT !.eventsTrie.cur = Put(@, key, JsonMarshal(event))]

(* fail = "iter" injects a failing trie iterator. *)
RecordEvent(b, txHash, topic, data, fail) ==
    IF fail = "iter" THEN [err |-> "ErrStorage", block |-> b]
    ELSE [err |-> Nil,
          block |-> recordEvent(b, txHash, [Topic |-> topic, Data |-> data])]

(* The indices of the keys Iterator(txHash) visits.  The keys of one hash  *)
(* have the same length and a big-endian index, so the iterator, which     *)
(* goes in key order, visits them by increasing index.                     *)
EventIndices(trie, txHash) ==
    {k[2][2] : k \in {x \in DOMAIN trie.cur : x[1] = txHash}}

NthIndex(S, n) == CHOOSE x \in S : Cardinality({y \in S : y < x}) = n - 1

(***************************************************************************)
(* DPoS context: the mint-count trie, which block.go writes, and the       *)
(* dynasty tries, which it only carries (one abstract root stands for the  *)
(* dynasty, next-dynasty, delegate, vote and candidate tries).             *)
(***************************************************************************)
DposContent(dynasty, mintCnt) == [dynasty |-> dynasty, mintCnt |-> mintCnt]

NilDposContext ==
    [valid |-> FALSE, cur |-> DposContent(0, EmptyContent),
     saved |-> DposContent(0, EmptyContent), batch |-> FALSE, misuse |-> FALSE]

(***************************************************************************)
(* Block objects.                                                          *)
(***************************************************************************)
ZeroHeader ==
    [hash |-> <<>>, parentHash |-> <<>>, stateRoot |-> <<>>, txsRoot |-> <<>>,
     eventsRoot |-> <<>>, dposContext |-> EmptyDposProto, coinbase |-> Nil,
     nonce |-> 0, timestamp |-> 0, chainID |-> 0, alg |-> 0, sign |-> <<>>]

ZeroBlock ==
    [id |-> Nil, header |-> ZeroHeader, transactions |-> <<>>,
     sealed |-> FALSE, height |-> 0, parenetBlock |-> Nil,
     accState |-> NilOverlay, txsTrie |-> NilOverlay, eventsTrie |-> NilOverlay,
     dposContext |-> NilDposContext, txPool |-> Nil, miner |-> Nil,
     storage |-> Nil, eventEmitter |-> Nil]

begin(b) ==
    [b EXCEPT !.accState = BeginBatch(@), !.txsTrie = BeginBatch(@),
              !.eventsTrie = BeginBatch(@), !.dposContext = BeginBatch(@)]

(* Variant of commit that leaves the batch of the DPoS context open. *)
commit_SkipsDposContext(b) ==
    [b EXCEPT !.accState = Commit(@), !.txsTrie = Commit(@),
              !.eventsTrie = Commit(@)]

(* Variant of commit that forgets the account state. *)
commit_SkipsAccState(b) ==
    [b EXCEPT !.txsTrie = Commit(@), !.eventsTrie = Commit(@),
              !.dposContext = Commit(@)]

commit(b) ==
    [b EXCEPT !.accState = Commit(@), !.txsTrie = Commit(@),
              !.eventsTrie = Commit(@), !.dposContext = Commit(@)]

(* Variant of rollback that forgets the events trie. *)
rollback_SkipsEvents(b) ==
    [b EXCEPT !.accState = RollBack(@), !.txsTrie = RollBack(@),
              !.dposContext = RollBack(@)]

(* Variant of rollback that forgets the account state. *)
rollback_SkipsAccState(b) ==
    [b EXCEPT !.txsTrie = RollBack(@), !.eventsTrie = RollBack(@),
              !.dposContext = RollBack(@)]

rollback(b) ==
    [b EXCEPT !.accState = RollBack(@), !.txsTrie = RollBack(@),
              !.eventsTrie = RollBack(@), !.dposContext = RollBack(@)]

BatchOpen(b) ==
    b.accState.batch \/ b.txsTrie.batch \/ b.eventsTrie.batch \/ b.dposContext.batch

Roots(b) ==
    [state |-> RootHash(b.accState), txs |-> RootHash(b.txsTrie),
     events |-> RootHash(b.eventsTrie), dpos |-> DposRootHash(b.dposContext)]

rewardCoinbase(b) ==
    [b EXCEPT !.accState = AddBalance(@, b.header.coinbase, BlockReward)]

(* Variant of recordMintCnt that does not read the stored count. *)
recordMintCnt_AlwaysOne(b, fail) ==
    LET key == <<FromInt64(b.header.timestamp \div DynastyInterval), b.miner>>
    IN  IF fail = "mintCnt"
        THEN [err |-> "ErrStorage", block |-> b]
        ELSE [err |-> Nil,
              block |-> [b EXCEPT !.dposContext.cur.mintCnt = Put(@, key, 1)]]

(* fail: the storage error injected into the mint-count trie ("none" for none) *)
recordMintCnt(b, fail) ==
    LET key == <<FromInt64(b.header.timestamp \div DynastyInterval), b.miner>>
        mc  == b.dposContext.cur.mintCnt
        cnt == IF key \in DOMAIN mc THEN mc[key] ELSE 0
    IN  IF fail = "mintCnt"
        THEN [err |-> "ErrStorage", block |-> b]
        ELSE [err |-> Nil,
              block |-> [b EXCEPT !.dposContext.cur.mintCnt = Put(@, key, cnt + 1)]]

(***************************************************************************)
(* The executor (Transaction.VerifyExecution): debits the sender, credits  *)
(* the receiver, records an event for a contract call, and may fail after  *)
(* these mutations.                                                        *)
(***************************************************************************)
TxVerifyExecution(tx, b) ==
    IF AccBalance(b.accState, tx.from) < tx.value
    THEN [err |-> "ErrInsufficientBalance",
          block |-> [b EXCEPT !.accState = GetOrCreateUserAccount(@, tx.from)]]
    ELSE Bind([b EXCEPT !.accState =
                   AddBalance(SubBalance(@, tx.from, tx.value), tx.to, tx.value)],
              LAMBDA b1 :
                 [err |-> IF tx.vmErr THEN "ErrExecutionFailed" ELSE Nil,
                  block |-> IF tx.type = "call"
                            THEN recordEvent(b1, tx.hash,
                                     [Topic |-> "chain.contract", Data |-> tx.hash])
                            ELSE b1])

acceptTransaction(b, tx) ==
    [b EXCEPT !.txsTrie.cur = Put(@, tx.hash, tx),
              !.accState = IncrNonce(@, tx.from)]

(* Variant of checkTransaction without the duplication check. *)
checkTransaction_NoDupCheck(b, tx) ==
    Bind([b EXCEPT !.accState = GetOrCreateUserAccount(@, tx.from)], LAMBDA b1 :
    Bind(AccNonce(b1.accState, tx.from), LAMBDA n :
        IF tx.nonce < n + 1
        THEN [giveback |-> FALSE, err |-> ErrSmallTransactionNonce, block |-> b1]
        ELSE IF tx.nonce > n + 1
        THEN [giveback |-> TRUE, err |-> ErrLargeTransactionNonce, block |-> b1]
        ELSE [giveback |-> FALSE, err |-> Nil, block |-> b1]))

(* Variant of checkTransaction that lets a nonce beyond the next one pass. *)
checkTransaction_NoLargeCheck(b, tx) ==
    IF tx.hash \in DOMAIN b.txsTrie.cur
    THEN [giveback |-> FALSE, err |-> ErrDuplicatedTransaction, block |-> b]
    ELSE Bind([b EXCEPT !.accState = GetOrCreateUserAccount(@, tx.from)], LAMBDA b1 :
         Bind(AccNonce(b1.accState, tx.from), LAMBDA n :
             IF tx.nonce < n + 1
             THEN [giveback |-> FALSE, err |-> ErrSmallTransactionNonce, block |-> b1]
             ELSE [giveback |-> FALSE, err |-> Nil, block |-> b1]))

(* Variant of checkTransaction that gives back a transaction with a small nonce. *)
checkTransaction_GivebackSmall(b, tx) ==
    IF tx.hash \in DOMAIN b.txsTrie.cur
    THEN [giveback |-> FALSE, err |-> ErrDuplicatedTransaction, block |-> b]
    ELSE Bind([b EXCEPT !.accState = GetOrCreateUserAccount(@, tx.from)], LAMBDA b1 :
         Bind(AccNonce(b1.accState, tx.from), LAMBDA n :
             IF tx.nonce < n + 1
             THEN [giveback |-> TRUE, err |-> ErrSmallTransactionNonce, block |-> b1]
             ELSE IF tx.nonce > n + 1
             THEN [giveback |-> TRUE, err |-> ErrLargeTransactionNonce, block |-> b1]
             ELSE [giveback |-> FALSE, err |-> Nil, block |-> b1]))

checkTransaction(b, tx) ==
    IF tx.hash \in DOMAIN b.txsTrie.cur
    THEN [giveback |-> FALSE, err |-> ErrDuplicatedTransaction, block |-> b]
    ELSE Bind([b EXCEPT !.accState = GetOrCreateUserAccount(@, tx.from)], LAMBDA b1 :
         Bind(AccNonce(b1.accState, tx.from), LAMBDA n :
             IF tx.nonce < n + 1
             THEN [giveback |-> FALSE, err |-> ErrSmallTransactionNonce, block |-> b1]
             ELSE IF tx.nonce > n + 1
             THEN [giveback |-> TRUE, err |-> ErrLargeTransactionNonce, block |-> b1]
             ELSE [giveback |-> FALSE, err |-> Nil, block |-> b1]))

executeTransaction(b, tx) ==
    Bind(checkTransaction(b, tx), LAMBDA c :
        IF c.err # Nil THEN c
        ELSE Bind(TxVerifyExecution(tx, c.block), LAMBDA v :
                 IF v.err # Nil
                 THEN [giveback |-> FALSE, err |-> v.err, block |-> v.block]
                 ELSE [giveback |-> FALSE, err |-> Nil,
                       block |-> acceptTransaction(v.block, tx)]))

(***************************************************************************)
(* Transaction pool: a hash-unique queue that pops the lowest nonce first.  *)
(* Push checks the nonce against the account state of the chain tail.      *)
(***************************************************************************)
InPool(q, tx) == \E i \in 1..Len(q) : q[i].hash = tx.hash

(* The pool is a priority queue on the nonce; equal nonces keep arrival order. *)
InsertByNonce(q, tx) ==
    Bind(Cardinality({i \in 1..Len(q) : q[i].nonce <= tx.nonce}), LAMBDA k :
        [j \in 1..(Len(q) + 1) |->
            IF j <= k THEN q[j] ELSE IF j = k + 1 THEN tx ELSE q[j - 1]])

PoolPush(q, tx, tailAcc) ==
    IF InPool(q, tx) THEN [err |-> "ErrDuplicatedTransaction", pool |-> q]
    ELSE IF tx.nonce < AccNonce(tailAcc, tx.from) + 1
    THEN [err |-> "ErrSmallTransactionNonce", pool |-> q]
    ELSE [err |-> Nil, pool |-> InsertByNonce(q, tx)]

PopIndex(q) ==
    CHOOSE i \in 1..Len(q) :
        \A j \in 1..Len(q) : q[i].nonce < q[j].nonce \/ (q[i].nonce = q[j].nonce /\ i <= j)

RemoveAt(q, i) == [j \in 1..(Len(q) - 1) |-> IF j < i THEN q[j] ELSE q[j + 1]]

RECURSIVE PushAll(_, _, _)
PushAll(q, txs, tailAcc) ==
    IF txs = <<>> THEN q
    ELSE PushAll(PoolPush(q, Head(txs), tailAcc).pool, Tail(txs), tailAcc)

(***************************************************************************)
(* NewBlock.  fail = "clone" injects a failing Clone.                      *)
(***************************************************************************)
(* Variant of NewBlock that starts the block with an empty txs trie. *)
NewBlock_FreshTxsTrie(chainID, coinbase, par, now, fail) ==
    IF fail = "clone"
    THEN [err |-> "ErrClone", block |-> ZeroBlock, parent |-> par]
    ELSE LET b == [ZeroBlock EXCEPT
                     !.id = "N",
                     !.header.parentHash = par.header.hash,
                     !.header.coinbase = coinbase,
                     !.header.nonce = 0,
                     !.header.timestamp = now,
                     !.header.chainID = chainID,
                     !.parenetBlock = par.id,
                     !.accState = Clone(par.accState),
                     !.txsTrie = Overlay(EmptyContent),
                     !.eventsTrie = Clone(par.eventsTrie),
                     !.dposContext = Clone(par.dposContext),
                     !.txPool = par.txPool,
                     !.height = par.height + 1,
                     !.sealed = FALSE,
                     !.storage = par.storage,
                     !.eventEmitter = par.eventEmitter]
         IN  [err |-> Nil, block |-> commit(rewardCoinbase(begin(b))), parent |-> par]

NewBlock(chainID, coinbase, par, now, fail) ==
    IF fail = "clone"
    THEN [err |-> "ErrClone", block |-> ZeroBlock, parent |-> par]
    ELSE LET b == [ZeroBlock EXCEPT
                     !.id = "N",
                     !.header.parentHash = par.header.hash,
                     !.header.coinbase = coinbase,
                     !.header.nonce = 0,
                     !.header.timestamp = now,
                     !.header.chainID = chainID,
                     !.parenetBlock = par.id,
                     !.accState = Clone(par.accState),
                     !.txsTrie = Clone(par.txsTrie),
                     !.eventsTrie = Clone(par.eventsTrie),
                     !.dposContext = Clone(par.dposContext),
                     !.txPool = par.txPool,
                     !.height = par.height + 1,
                     !.sealed = FALSE,
                     !.storage = par.storage,
                     !.eventEmitter = par.eventEmitter]
         IN  [err |-> Nil, block |-> commit(rewardCoinbase(begin(b))), parent |-> par]

(***************************************************************************)
(* Setters and Sign.                                                       *)
(***************************************************************************)
(* Variants of the setters without the sealed check. *)
SetNonce_IgnoresSealed(b, nonce) == [b EXCEPT !.header.nonce = nonce]

SetTimestamp_IgnoresSealed(b, timestamp) == [b EXCEPT !.header.timestamp = timestamp]

SetNonce(b, nonce) ==
    IF b.sealed THEN b ELSE [b EXCEPT !.header.nonce = nonce]

SetTimestamp(b, timestamp) ==
    IF b.sealed THEN b ELSE [b EXCEPT !.header.timestamp = timestamp]

SetMiner(b, miner) == [b EXCEPT !.miner = miner]

Sign(b, signer, ok) ==
    IF ~ok THEN [err |-> "ErrSign", block |-> b]
    ELSE [err |-> Nil,
          block |-> [b EXCEPT !.header.alg = 1,
                              !.header.sign = <<"sig", signer, b.header.hash>>]]

(***************************************************************************)
(* CollectTransactions.  The loop keeps a log of its iterations: the       *)
(* transaction popped, what executeTransaction returned, whether the hash  *)
(* was in the txs trie and the sender nonce before begin(), the four roots *)
(* before begin(), after executeTransaction and after commit()/rollback(), *)
(* the transaction list before and after, and the pool after the pop.      *)
(***************************************************************************)
RECURSIVE CollectLoop(_, _, _, _, _)
CollectLoop(b, q, n, givebacks, log) ==
    IF q = <<>> \/ n <= 0
    THEN [block |-> b, pool |-> q, givebacks |-> givebacks, log |-> log]
    ELSE Bind(PopIndex(q), LAMBDA i :
         Bind(executeTransaction(begin(b), q[i]), LAMBDA r :
         Bind(IF r.err = Nil
              THEN [commit(r.block) EXCEPT !.transactions = Append(@, q[i])]
              ELSE rollback(r.block), LAMBDA b2 :
         Bind([tx |-> q[i], giveback |-> r.giveback, err |-> r.err,
               dup |-> q[i].hash \in DOMAIN b.txsTrie.cur,
               nonceBefore |-> AccNonce(b.accState, q[i].from),
               nonceAfter |-> AccNonce(b2.accState, q[i].from),
               before |-> Roots(b), staged |-> Roots(r.block), after |-> Roots(b2),
               open |-> BatchOpen(b2),
               txsBefore |-> TxHashes(b.transactions),
               txsAfter |-> TxHashes(b2.transactions),
               poolAfter |-> RemoveAt(q, i)], LAMBDA e :
         CollectLoop(b2, RemoveAt(q, i), IF r.err = Nil THEN n - 1 ELSE n,
                     IF r.giveback THEN Append(givebacks, q[i]) ELSE givebacks,
                     Append(log, e))))))

(* Variant of CollectTransactions without the sealed check. *)
CollectTransactions_NoSealedCheck(b, q, n, tailAcc) ==
    Bind(CollectLoop(b, q, n, <<>>, <<>>), LAMBDA r :
        [r EXCEPT !.pool = PushAll(r.pool, r.givebacks, tailAcc)])

CollectTransactions(b, q, n, tailAcc) ==
    IF b.sealed
    THEN [block |-> b, pool |-> q, givebacks |-> <<>>, log |-> <<>>]
    ELSE Bind(CollectLoop(b, q, n, <<>>, <<>>), LAMBDA r :
             [r EXCEPT !.pool = PushAll(r.pool, r.givebacks, tailAcc)])

(***************************************************************************)
(* Seal.  fail injects a storage error in recordMintCnt ("mintCnt") or a   *)
(* failing DposContext.ToProto ("toProto").                                *)
(***************************************************************************)
(* The body of Seal after the sealed check. *)
sealOpen(b, fail) ==
    Bind(recordMintCnt(begin(b), fail), LAMBDA r :
    IF r.err # Nil THEN [err |-> r.err, block |-> rollback(r.block)]
    ELSE Bind(commit(r.block), LAMBDA b1 :
         Bind([b1 EXCEPT !.header.stateRoot = RootHash(b1.accState),
                         !.header.txsRoot = RootHash(b1.txsTrie),
                         !.header.eventsRoot = RootHash(b1.eventsTrie)], LAMBDA b2 :
             IF fail = "toProto"
             THEN [err |-> "ErrToProto",
                   block |-> [b2 EXCEPT !.header.dposContext = EmptyDposProto]]
             ELSE Bind([b2 EXCEPT !.header.dposContext =
                                      DposToProto(b2.dposContext)], LAMBDA b3 :
                      [err |-> Nil,
                       block |-> [b3 EXCEPT !.header.hash = HashBlock(b3),
                                            !.sealed = TRUE]]))))

(* Variant of Seal without the sealed check. *)
Seal_NoSealedCheck(b, fail) == sealOpen(b, fail)

Seal(b, fail) ==
    IF b.sealed THEN [err |-> ErrDoubleSealBlock, block |-> b]
    ELSE sealOpen(b, fail)

(***************************************************************************)
(* LinkParentBlock.  fail injects a failing Clone or a failing dynasty     *)
(* context.  NextDynastyContext gives the parent's DPoS context with the   *)
(* dynasty of the block's time.                                            *)
(***************************************************************************)
NextDynastyContext(par, elapsedSecond) ==
    Overlay(DposContent((par.header.timestamp + elapsedSecond) \div DynastyInterval,
                        par.dposContext.cur.mintCnt))

(* The body of LinkParentBlock after the parent-hash check. *)
linkChecked(b, par, fail) ==
    IF fail = "cloneAcc"
    THEN [err |-> ErrCloneAccountState, block |-> [b EXCEPT !.accState = NilOverlay]]
    ELSE LET b1 == [b EXCEPT !.accState = Clone(par.accState)]
    IN IF fail = "cloneTxs"
    THEN [err |-> ErrCloneTxsState, block |-> [b1 EXCEPT !.txsTrie = NilOverlay]]
    ELSE LET b2 == [b1 EXCEPT !.txsTrie = Clone(par.txsTrie)]
    IN IF fail = "cloneEvents"
    THEN [err |-> ErrCloneEventsState, block |-> [b2 EXCEPT !.eventsTrie = NilOverlay]]
    ELSE LET b3 == [b2 EXCEPT !.eventsTrie = Clone(par.eventsTrie)]
             elapsedSecond == b.header.timestamp - par.header.timestamp
    IN IF fail = "genDynasty"
    THEN [err |-> ErrGenerateNextDynastyContext, block |-> b3]
    ELSE IF fail = "loadDynasty"
    THEN [err |-> ErrLoadNextDynastyContext, block |-> b3]
    ELSE [err |-> Nil,
          block |-> [b3 EXCEPT !.dposContext = NextDynastyContext(par, elapsedSecond),
                               !.txPool = par.txPool,
                               !.parenetBlock = par.id,
                               !.storage = par.storage,
                               !.height = par.height + 1,
                               !.eventEmitter = par.eventEmitter]]

(* Variant of LinkParentBlock that does not set the parent reference. *)
LinkParentBlock_KeepsParentRef(b, par, fail) ==
    IF b.header.parentHash # par.header.hash
    THEN [err |-> ErrLinkToWrongParentBlock, block |-> b]
    ELSE Bind(linkChecked(b, par, fail), LAMBDA r :
             [r EXCEPT !.block.parenetBlock = b.parenetBlock])

LinkParentBlock(b, par, fail) ==
    IF b.header.parentHash # par.header.hash
    THEN [err |-> ErrLinkToWrongParentBlock, block |-> b]
    ELSE linkChecked(b, par, fail)

(***************************************************************************)
(* VerifyExecution: execute, verifyState, triggerEvent.                    *)
(***************************************************************************)
RECURSIVE executeTxs(_, _, _, _)
executeTxs(b, txs, q, tailAcc) ==
    IF txs = <<>> THEN [err |-> Nil, block |-> b, pool |-> q]
    ELSE Bind(executeTransaction(b, Head(txs)), LAMBDA r :
         Bind(IF r.giveback THEN PoolPush(q, Head(txs), tailAcc)
              ELSE [err |-> Nil, pool |-> q], LAMBDA p :
             IF r.giveback /\ p.err # Nil
             THEN [err |-> p.err, block |-> r.block, pool |-> p.pool]
             ELSE IF r.err # Nil
             THEN [err |-> r.err, block |-> r.block, pool |-> p.pool]
             ELSE executeTxs(r.block, Tail(txs), p.pool, tailAcc)))

execute(b, q, tailAcc, fail) ==
    Bind(executeTxs(rewardCoinbase(b), b.transactions, q, tailAcc), LAMBDA r :
        IF r.err # Nil THEN r
        ELSE Bind(recordMintCnt(r.block, fail), LAMBDA m :
                 [err |-> m.err, block |-> m.block, pool |-> r.pool]))

(* Variant of verifyState that compares the txs root first. *)
verifyState_TxsFirst(b) ==
    IF RootHash(b.txsTrie) # b.header.txsRoot THEN ErrInvalidBlockTxsRoot
    ELSE IF RootHash(b.accState) # b.header.stateRoot THEN ErrInvalidBlockStateRoot
    ELSE IF RootHash(b.eventsTrie) # b.header.eventsRoot THEN ErrInvalidBlockEventsRoot
    ELSE IF DposRootHash(b.dposContext) # DposContextHash(b)
    THEN ErrInvalidBlockDposContextRoot
    ELSE Nil

verifyState(b) ==
    IF RootHash(b.accState) # b.header.stateRoot THEN ErrInvalidBlockStateRoot
    ELSE IF RootHash(b.txsTrie) # b.header.txsRoot THEN ErrInvalidBlockTxsRoot
    ELSE IF RootHash(b.eventsTrie) # b.header.eventsRoot THEN ErrInvalidBlockEventsRoot
    ELSE IF DposRootHash(b.dposContext) # DposContextHash(b)
    THEN ErrInvalidBlockDposContextRoot
    ELSE Nil

(* FetchEvents: the events under txHash in index order, or (nil, err). *)
FetchEvents(b, txHash, fail) ==
    IF fail = "fetch" THEN [events |-> <<>>, err |-> "ErrStorage"]
    ELSE Bind(EventIndices(b.eventsTrie, txHash), LAMBDA S :
             [events |-> [n \in 1..Cardinality(S) |->
                            JsonUnmarshal(b.eventsTrie.cur[
                                <<txHash, FromInt64(NthIndex(S, n))>>])],
              err |-> Nil])

TxTopic(tx) ==
    IF tx.type = "binary" THEN "chain.sendTransaction"
    ELSE IF tx.type = "deploy" THEN "chain.deployContract"
    ELSE IF tx.type = "call" THEN "chain.callContract"
    ELSE IF tx.type = "delegate" THEN "chain.delegate"
    ELSE IF tx.type = "candidate" THEN "chain.candidate"
    ELSE ""

RECURSIVE triggerTxs(_, _, _)
triggerTxs(b, txs, fail) ==
    IF txs = <<>> THEN <<>>
    ELSE Bind(FetchEvents(b, Head(txs).hash, fail), LAMBDA f :
             <<[Topic |-> TxTopic(Head(txs)), Data |-> Head(txs).hash]>>
             \o (IF f.err # Nil THEN f.events ELSE <<>>)
             \o triggerTxs(b, Tail(txs), fail))

triggerEvent(b, fail) ==
    triggerTxs(b, b.transactions, fail)
    \o <<[Topic |-> "chain.linkBlock", Data |-> b.header.hash]>>

(* Variant of VerifyExecution that releases the events before verifyState. *)
VerifyExecution_TriggersEarly(b, q, tailAcc, consensusErr, fail) ==
    IF consensusErr # Nil
    THEN [err |-> consensusErr, block |-> b, pool |-> q, events |-> <<>>]
    ELSE Bind(execute(begin(b), q, tailAcc, fail), LAMBDA e :
             IF e.err # Nil
             THEN [err |-> e.err, block |-> rollback(e.block), pool |-> e.pool,
                   events |-> <<>>]
             ELSE Bind(verifyState(e.block), LAMBDA v :
                      IF v # Nil
                      THEN [err |-> v, block |-> rollback(e.block), pool |-> e.pool,
                            events |-> triggerEvent(e.block, fail)]
                      ELSE [err |-> Nil, block |-> commit(e.block), pool |-> e.pool,
                            events |-> triggerEvent(commit(e.block), fail)]))

VerifyExecution(b, q, tailAcc, consensusErr, fail) ==
    IF consensusErr # Nil
    THEN [err |-> consensusErr, block |-> b, pool |-> q, events |-> <<>>]
    ELSE Bind(execute(begin(b), q, tailAcc, fail), LAMBDA e :
             IF e.err # Nil
             THEN [err |-> e.err, block |-> rollback(e.block), pool |-> e.pool,
                   events |-> <<>>]
             ELSE Bind(verifyState(e.block), LAMBDA v :
                      IF v # Nil
                      THEN [err |-> v, block |-> rollback(e.block), pool |-> e.pool,
                            events |-> <<>>]
                      ELSE [err |-> Nil, block |-> commit(e.block), pool |-> e.pool,
                            events |-> triggerEvent(commit(e.block), fail)]))

(***************************************************************************)
(* VerifyIntegrity.  bad is the set of hashes of the transactions whose    *)
(* own integrity check fails; consensusErr is what FastVerifyBlock returns.*)
(***************************************************************************)
TxVerifyIntegrity(tx, chainID, bad) ==
    IF tx.hash \in bad THEN "ErrInvalidTransaction:" \o tx.hash ELSE Nil

RECURSIVE verifyTxsIntegrity(_, _, _)
verifyTxsIntegrity(txs, chainID, bad) ==
    IF txs = <<>> THEN Nil
    ELSE Bind(TxVerifyIntegrity(Head(txs), chainID, bad), LAMBDA e :
             IF e # Nil THEN e ELSE verifyTxsIntegrity(Tail(txs), chainID, bad))

(* Variant of VerifyIntegrity that checks the hash before the chain id. *)
VerifyIntegrity_HashFirst(b, chainID, bad, consensusErr) ==
    IF HashBlock(b) # b.header.hash
    THEN [err |-> ErrInvalidBlockHash, block |-> b]
    ELSE IF b.header.chainID # chainID
    THEN [err |-> ErrInvalidChainID, block |-> b]
    ELSE Bind(verifyTxsIntegrity(b.transactions, b.header.chainID, bad), LAMBDA e :
             IF e # Nil THEN [err |-> e, block |-> b]
             ELSE [err |-> consensusErr, block |-> b])

VerifyIntegrity(b, chainID, bad, consensusErr) ==
    IF b.header.chainID # chainID
    THEN [err |-> ErrInvalidChainID, block |-> b]
    ELSE IF HashBlock(b) # b.header.hash
    THEN [err |-> ErrInvalidBlockHash, block |-> b]
    ELSE Bind(verifyTxsIntegrity(b.transactions, b.header.chainID, bad), LAMBDA e :
             IF e # Nil THEN [err |-> e, block |-> b]
             ELSE [err |-> consensusErr, block |-> b])

(***************************************************************************)
(* Storage: ToProto carries the header, the transactions and the height;   *)
(* FromProto fills them into a new Block whose other fields are zero.      *)
(* LoadBlockFromStorage opens the tries at the roots the header records    *)
(* (the tries are content-addressed).  fail injects a failing storage.Get  *)
(* ("get") or a failing DposContext.FromProto ("dposFromProto").           *)
(***************************************************************************)
ToProto(b) ==
    [Header |-> b.header, Transactions |-> b.transactions, Height |-> b.height]

FromProto(msg) ==
    [ZeroBlock EXCEPT !.id = "N", !.header = msg.Header,
                      !.transactions = msg.Transactions, !.height = msg.Height]

OpenAt(root) == Overlay(root[2])

DposFromProto(proto) ==
    Overlay(DposContent(proto.DynastyRoot[2], proto.MintCntRoot[2]))

LoadBlockFromStorage(value, storage, txPool, eventEmitter, fail) ==
    IF fail = "get" THEN [block |-> ZeroBlock, err |-> "ErrKeyNotFound"]
    ELSE IF fail = "dposFromProto" THEN [block |-> ZeroBlock, err |-> Nil]
    ELSE Bind(FromProto(value), LAMBDA b :
             [block |-> [b EXCEPT !.accState = OpenAt(b.header.stateRoot),
                                  !.txsTrie = OpenAt(b.header.txsRoot),
                                  !.eventsTrie = OpenAt(b.header.eventsRoot),
                                  !.dposContext = DposFromProto(b.header.dposContext),
                                  !.txPool = txPool,
                                  !.storage = storage,
                                  !.sealed = TRUE,
                                  !.eventEmitter = eventEmitter],
              err |-> Nil])

(***************************************************************************)
(* Initial state: the chain tail is a sealed block that holds t0 (sender   *)
(* B, nonce 1); a second sealed block, of another fork, is known.  The     *)
(* pool may still hold t0, which another node packed.                      *)
(***************************************************************************)
TxByHash(h) == CHOOSE t \in Txs : t.hash = h

TailBlock ==
    Seal([ZeroBlock EXCEPT
            !.id = "P",
            !.header.parentHash = <<"sha3", "genesis">>,
            !.header.coinbase = "A", !.header.chainID = ChainID,
            !.transactions = <<TxByHash("t0")>>, !.height = 1,
            !.accState = Overlay(("A" :> [balance |-> 2, nonce |-> 0]) @@
                                 ("B" :> [balance |-> 2, nonce |-> 1])),
            !.txsTrie = Overlay("t0" :> TxByHash("t0")),
            !.eventsTrie = Overlay(EmptyContent),
            !.dposContext = Overlay(DposContent(0, EmptyContent)),
            !.txPool = "pool", !.miner = "A", !.storage = "storage",
            !.eventEmitter = "emitter"], "none").block

ForkBlock ==
    Seal([TailBlock EXCEPT
            !.id = "Q", !.sealed = FALSE, !.header.coinbase = "B",
            !.header.timestamp = 1, !.height = 5, !.txPool = "pool2",
            !.storage = "storage2", !.eventEmitter = "emitter2"], "none").block

(***************************************************************************)
(* Blocks that arrive from the network as messages.  An honest block is    *)
(* what a miner builds on the chain tail; a forged one has header roots,   *)
(* transactions, chain id or nonce replaced, with or without a new hash.   *)
(***************************************************************************)
Mined(txs, now) ==
    Seal(CollectTransactions(
             SetMiner(NewBlock(ChainID, "A", TailBlock, now, "none").block, "A"),
             txs, Len(txs), TailBlock.accState).block, "none").block

Rehash(b) == [b EXCEPT !.header.hash = HashBlock(b)]

(* A root the block's tries never have: the root of the empty trie. *)
ForgedRoot == <<"root", EmptyContent>>

Tamper(b, S) ==
    Rehash([b EXCEPT
        !.header.stateRoot = IF "state" \in S THEN ForgedRoot ELSE @,
        !.header.txsRoot = IF "txs" \in S THEN ForgedRoot ELSE @,
        !.header.eventsRoot = IF "events" \in S THEN ForgedRoot ELSE @,
        !.header.dposContext = IF "dpos" \in S THEN EmptyDposProto ELSE @])

WithTxs(b, txs) == Rehash([b EXCEPT !.transactions = txs])

Messages ==
    {ToProto(Mined(txs, now)) :
        txs \in {<<>>, <<TxByHash("t1")>>, <<TxByHash("t1"), TxByHash("t2")>>},
        now \in 1..MaxTime}
    \cup {ToProto(Tamper(Mined(<<TxByHash("t1")>>, 1), S)) :
             S \in SUBSET {"state", "txs", "events", "dpos"}}
    \cup {ToProto(WithTxs(Mined(<<TxByHash("t1")>>, 1), txs)) :
             txs \in {<<TxByHash("t0")>>, <<TxByHash("t3")>>, <<TxByHash("t4")>>,
                      <<TxByHash("t5")>>, <<TxByHash("t1"), TxByHash("t4")>>,
                      <<TxByHash("t2"), TxByHash("t1")>>}}
    \cup {ToProto([Mined(<<TxByHash("t1")>>, 1) EXCEPT !.header.chainID = ChainID + 1]),
          ToProto(Rehash([Mined(<<TxByHash("t1")>>, 1) EXCEPT
                             !.header.chainID = ChainID + 1])),
          ToProto([Mined(<<TxByHash("t1"), TxByHash("t2")>>, 1) EXCEPT
                      !.header.nonce = 1])}

(***************************************************************************)
(* Wire framer.  A byte string that is a header is a sequence of cells: a  *)
(* plain byte is a number; the i-th byte of the encoding of the 32-bit     *)
(* value v is the cell <<v, i>> (FromUint32 and Uint32 are inverse).  A    *)
(* checksum is the value <<"crc32", x>> of its input x.  A payload of      *)
(* hi * 2^32 + lo bytes is [hi, lo, body]; body names its content.         *)
(***************************************************************************)
MagicNumber == <<78, 69, 66, 49>>

offsetFour == 4
offsetEight == 8
offsetEleven == 11
offsetTwelve == 12
offsetTwentyFour == 24
offsetTwentyEight == 28
offsetThirtyTwo == 32
offsetThirtySix == 36

FromUint32Bytes(v) == <<<<v, 1>>, <<v, 2>>, <<v, 3>>, <<v, 4>>>>

Uint32(b) == b[1][1]

ChecksumIEEE(x) == <<"crc32", x>>

(* Go's copy(dst[off:], src): as many bytes as fit. *)
Copy(dst, off, src) ==
    Bind(dst, LAMBDA d : Bind(src, LAMBDA c :
        [i \in 1..Len(d) |->
            IF i > off /\ i <= off + Len(c) THEN c[i - off] ELSE d[i]]))

(* b[from:to] *)
Slice(b, from, to) == SubSeq(b, from + 1, to)

Payload(hi, lo, body) ==
    [hi |-> hi, lo |-> lo, body |-> IF hi = 0 /\ lo = 0 THEN "" ELSE body]

(* uint32(len(data)) *)
Uint32Len(data) == data.lo

(* The first n bytes of data, n < 2^32. *)
Prefix(data, n) ==
    IF data.hi = 0 /\ data.lo = n THEN data
    ELSE Payload(0, n, "prefix of " \o data.body)

(* Variant of buildHeader that writes the name one byte early. *)
buildHeader_NameAtEleven(chainID, msgName, version, dataLength, dataChecksum, reserved) ==
    Copy(Copy(Copy(Copy(Copy(Copy(Copy([i \in 1..offsetThirtyTwo |-> 0],
        0, MagicNumber),
        offsetFour, FromUint32Bytes(chainID)),
        offsetEight, reserved),
        offsetEleven, <<version>>),
        offsetEleven, msgName),
        offsetTwentyFour, FromUint32Bytes(dataLength)),
        offsetTwentyEight, FromUint32Bytes(dataChecksum))

buildHeader(chainID, msgName, version, dataLength, dataChecksum, reserved) ==
    Copy(Copy(Copy(Copy(Copy(Copy(Copy([i \in 1..offsetThirtyTwo |-> 0],
        0, MagicNumber),
        offsetFour, FromUint32Bytes(chainID)),
        offsetEight, reserved),
        offsetEleven, <<version>>),
        offsetTwelve, msgName),
        offsetTwentyFour, FromUint32Bytes(dataLength)),
        offsetTwentyEight, FromUint32Bytes(dataChecksum))

(* The frame: the header bytes, then the payload. *)
buildData(node, data, msgName) ==
    Bind(buildHeader(node.chainID, msgName, node.version, Uint32Len(data),
                     ChecksumIEEE(data), <<0>>), LAMBDA metaHeader :
        [head |-> metaHeader \o FromUint32Bytes(ChecksumIEEE(metaHeader)),
         tail |-> data])

(* Variant of verifyHeader that does not look at the chain id. *)
verifyHeader_NoChainID(node, protocol) ==
    /\ MagicNumber = protocol.magicNumber
    /\ node.version = protocol.version
    /\ ChecksumIEEE(protocol.dataHeader) = Uint32(protocol.headerChecksum)

verifyHeader(node, protocol) ==
    /\ MagicNumber = protocol.magicNumber
    /\ node.chainID = Uint32(protocol.chainID)
    /\ node.version = protocol.version
    /\ ChecksumIEEE(protocol.dataHeader) = Uint32(protocol.headerChecksum)

(* bytes.IndexByte(msgName, 0): the position before the first NUL, else -1 *)
IndexByte(b, c) ==
    IF \E i \in 1..Len(b) : b[i] = c
    THEN (CHOOSE i \in 1..Len(b) : b[i] = c /\ \A j \in 1..(i - 1) : b[j] # c) - 1
    ELSE -1

NoProtocol ==
    [msgName |-> <<>>, data |-> Payload(0, 0, ""),
     dataChecksum |-> ChecksumIEEE(Payload(0, 0, ""))]

(* Variant of parse that does not compare the checksum of the payload. *)
parse_NoDataChecksum(node, s) ==
    IF Len(s.head) < offsetThirtySix
    THEN [err |-> "ErrUnexpectedEOF", protocol |-> NoProtocol,
          read |-> <<offsetThirtySix>>]
    ELSE
    Bind(Slice(s.head, 0, offsetThirtySix), LAMBDA header :
    Bind([magicNumber |-> Slice(header, 0, offsetFour),
          chainID |-> Slice(header, offsetFour, offsetEight),
          version |-> header[offsetEleven + 1],
          msgName |-> Bind(Slice(header, offsetTwelve, offsetTwentyFour), LAMBDA msgName :
                          IF IndexByte(msgName, 0) # -1
                          THEN Slice(msgName, 0, IndexByte(msgName, 0))
                          ELSE msgName),
          dataLength |-> Slice(header, offsetTwentyFour, offsetTwentyEight),
          dataChecksum |-> Slice(header, offsetTwentyEight, offsetThirtyTwo),
          dataHeader |-> Slice(header, 0, offsetThirtyTwo),
          headerChecksum |-> Slice(header, offsetThirtyTwo, offsetThirtySix)],
         LAMBDA protocol :
        IF ~verifyHeader(node, protocol)
        THEN [err |-> "parse protocol, verify header occurs error",
              protocol |-> NoProtocol, read |-> <<offsetThirtySix>>]
        ELSE IF s.tail.hi = 0 /\ s.tail.lo < Uint32(protocol.dataLength)
        THEN [err |-> "ErrUnexpectedEOF", protocol |-> NoProtocol,
              read |-> <<offsetThirtySix, Uint32(protocol.dataLength)>>]
        ELSE [err |-> Nil,
              protocol |-> [msgName |-> protocol.msgName,
                            data |-> Prefix(s.tail, Uint32(protocol.dataLength)),
                            dataChecksum |-> Uint32(protocol.dataChecksum)],
              read |-> <<offsetThirtySix, Uint32(protocol.dataLength)>>]))

(* parse reads the stream s: 36 bytes, then as many as the header says;    *)
(* read lists the numbers of bytes it asked the stream for.                *)
parse(node, s) ==
    IF Len(s.head) < offsetThirtySix
    THEN [err |-> "ErrUnexpectedEOF", protocol |-> NoProtocol,
          read |-> <<offsetThirtySix>>]
    ELSE
    Bind(Slice(s.head, 0, offsetThirtySix), LAMBDA header :
    Bind([magicNumber |-> Slice(header, 0, offsetFour),
          chainID |-> Slice(header, offsetFour, offsetEight),
          reserved |-> Slice(header, offsetEight, offsetEleven),
          version |-> header[offsetEleven + 1],
          msgName |-> Bind(Slice(header, offsetTwelve, offsetTwentyFour), LAMBDA msgName :
                          IF IndexByte(msgName, 0) # -1
                          THEN Slice(msgName, 0, IndexByte(msgName, 0))
                          ELSE msgName),
          dataLength |-> Slice(header, offsetTwentyFour, offsetTwentyEight),
          dataChecksum |-> Slice(header, offsetTwentyEight, offsetThirtyTwo),
          dataHeader |-> Slice(header, 0, offsetThirtyTwo),
          headerChecksum |-> Slice(header, offsetThirtyTwo, offsetThirtySix)],
         LAMBDA protocol :
        IF ~verifyHeader(node, protocol)
        THEN [err |-> "parse protocol, verify header occurs error",
              protocol |-> NoProtocol, read |-> <<offsetThirtySix>>]
        ELSE IF s.tail.hi = 0 /\ s.tail.lo < Uint32(protocol.dataLength)
        THEN [err |-> "ErrUnexpectedEOF", protocol |-> NoProtocol,
              read |-> <<offsetThirtySix, Uint32(protocol.dataLength)>>]
        ELSE Bind(Prefix(s.tail, Uint32(protocol.dataLength)), LAMBDA data :
            IF ChecksumIEEE(data) # Uint32(protocol.dataChecksum)
            THEN [err |-> "parse protocol, data verification occurs error, dataChecksum is error",
                  protocol |-> NoProtocol,
                  read |-> <<offsetThirtySix, Uint32(protocol.dataLength)>>]
            ELSE [err |-> Nil,
                  protocol |-> [msgName |-> protocol.msgName, data |-> data,
                                dataChecksum |-> Uint32(protocol.dataChecksum)],
                  read |-> <<offsetThirtySix, Uint32(protocol.dataLength)>>])))

(* No message is on its way. *)
NoMessage == [phase |-> "idle"]

(* The names and payloads a node sends, and the nodes. *)
Names ==
    {<<>>, <<97>>, <<98, 97>>, <<97, 0, 98>>,
     [i \in 1..11 |-> 97], [i \in 1..12 |-> 98],
     [i \in 1..12 |-> IF i = 12 THEN 0 ELSE 97],
     [i \in 1..13 |-> 97], [i \in 1..21 |-> 98]}

Payloads == {Payload(hi, lo, body) : hi \in 0..MaxHi, lo \in 0..MaxLen, body \in {"x", "y"}}

Nodes == {[chainID |-> c, version |-> v] : c \in {1, 258}, v \in {1, 2}}

Ret(op, err) ==
    [op |-> op, err |-> err, argId |-> Nil, argN |-> 0, log |-> <<>>,
     givebacks |-> <<>>, events |-> <<>>]

Init ==
    /\ block = ZeroBlock
    /\ parent = TailBlock
    /\ pool \in {<<>>, <<TxByHash("t0")>>}
    /\ ret = Ret("Init", Nil)
    /\ net = NoMessage

MintCntKey(b) == <<FromInt64(b.header.timestamp \div DynastyInterval), b.miner>>

MintCnt(b) ==
    IF MintCntKey(b) \in DOMAIN b.dposContext.cur.mintCnt
    THEN b.dposContext.cur.mintCnt[MintCntKey(b)] ELSE 0

Usable(b) ==
    /\ b.accState.valid /\ b.txsTrie.valid /\ b.eventsTrie.valid
    /\ b.dposContext.valid

(***************************************************************************)
(* Actions: one per call.  A block is made by NewBlock, filled, sealed,    *)
(* signed, and then handed to the chain, which re-binds it to its parent   *)
(* and verifies it: LinkParentBlock, VerifyExecution, Sign and             *)
(* LoadBlockFromStorage are called on sealed blocks.  A block received     *)
(* from the network (a new object "R" filled by FromProto) is checked by   *)
(* VerifyIntegrity, bound to its parent and verified.  A call that would   *)
(* dereference a nil pointer is not made.                                  *)
(***************************************************************************)
Handed(b) == b.sealed \/ b.id = "R"

DoNewBlock ==
    \E coinbase \in Miners, now \in 1..MaxTime, fail \in {"none", "clone"} :
        \E r \in {NewBlock(ChainID, coinbase, parent, now, fail)} :
            /\ block' = IF r.err = Nil THEN r.block ELSE block
            /\ parent' = r.parent
            /\ ret' = Ret("NewBlock", r.err)
            /\ UNCHANGED <<pool, net>>

DoSetNonce ==
    \E nonce \in 0..MaxNonce :
        /\ block.id # Nil
        /\ block' = SetNonce(block, nonce)
        /\ ret' = [Ret("SetNonce", Nil) EXCEPT !.argN = nonce]
        /\ UNCHANGED <<parent, pool, net>>

DoSetTimestamp ==
    \E timestamp \in 1..MaxTime :
        /\ block.id # Nil
        /\ block' = SetTimestamp(block, timestamp)
        /\ ret' = [Ret("SetTimestamp", Nil) EXCEPT !.argN = timestamp]
        /\ UNCHANGED <<parent, pool, net>>

DoSetMiner ==
    \E miner \in Miners :
        /\ block.id # Nil
        /\ block' = SetMiner(block, miner)
        /\ ret' = Ret("SetMiner", Nil)
        /\ UNCHANGED <<parent, pool, net>>

DoSign ==
    \E ok \in BOOLEAN :
        /\ block.sealed
        /\ \E r \in {Sign(block, block.header.coinbase, ok)} :
               /\ block' = r.block
               /\ ret' = Ret("Sign", r.err)
        /\ UNCHANGED <<parent, pool, net>>

DoCollectTransactions ==
    \E n \in 0..MaxCollect :
        /\ Usable(block)
        /\ \E r \in {CollectTransactions(block, pool, n, parent.accState)} :
               /\ block' = r.block
               /\ pool' = r.pool
               /\ ret' = [Ret("CollectTransactions", Nil) EXCEPT
                            !.argN = n, !.log = r.log, !.givebacks = r.givebacks]
        /\ UNCHANGED <<parent, net>>

DoSeal ==
    \E fail \in {"none", "mintCnt"} :
        /\ Usable(block)
        /\ block.miner # Nil
        /\ MintCnt(block) < MaxMint
        /\ \E r \in {Seal(block, fail)} :
               /\ block' = r.block
               /\ ret' = Ret("Seal", r.err)
        /\ UNCHANGED <<parent, pool, net>>

(* Seal where DposContext.ToProto may fail as well. *)
DoSealToProto ==
    \E fail \in {"none", "mintCnt", "toProto"} :
        /\ Usable(block)
        /\ block.miner # Nil
        /\ MintCnt(block) < MaxMint
        /\ \E r \in {Seal(block, fail)} :
               /\ block' = r.block
               /\ ret' = Ret("Seal", r.err)
        /\ UNCHANGED <<parent, pool, net>>

DoLinkParentBlock ==
    \E par \in {parent, ForkBlock},
       fail \in {"none", "cloneTxs", "genDynasty"} :
        /\ Handed(block)
        /\ \E r \in {LinkParentBlock(block, par, fail)} :
               /\ block' = r.block
               /\ ret' = [Ret("LinkParentBlock", r.err) EXCEPT !.argId = par.id]
        /\ UNCHANGED <<parent, pool, net>>

DoVerifyExecution ==
    \E consensusErr \in {Nil, "ErrConsensus"}, fail \in {"none", "mintCnt", "fetch"} :
        /\ Handed(block)
        /\ Usable(block)
        /\ block.miner # Nil
        /\ \E r \in {VerifyExecution(block, pool, parent.accState, consensusErr, fail)} :
               /\ block' = r.block
               /\ pool' = r.pool
               /\ ret' = [Ret("VerifyExecution", r.err) EXCEPT
                            !.events = r.events,
                            !.log = <<[consensusErr |-> consensusErr, fail |-> fail]>>]
        /\ UNCHANGED <<parent, net>>

(* A sealed block is stored under its hash and loaded again. *)
DoLoadBlockFromStorage ==
    \E fail \in {"none", "get", "dposFromProto"} :
        /\ block.sealed
        /\ \E r \in {LoadBlockFromStorage(ToProto(block), parent.storage, parent.txPool,
                                          parent.eventEmitter, fail)} :
               /\ block' = IF r.block.id # Nil THEN r.block ELSE block
               /\ ret' = [Ret("LoadBlockFromStorage", r.err) EXCEPT !.argId = r.block.id]
        /\ UNCHANGED <<parent, pool, net>>

DoReceive ==
    \E msg \in Messages :
        /\ block' = [FromProto(msg) EXCEPT !.id = "R"]
        /\ ret' = Ret("FromProto", Nil)
        /\ UNCHANGED <<parent, pool, net>>

DoVerifyIntegrity ==
    \E chainID \in {ChainID, ChainID + 1}, bad \in SUBSET {"t1", "t2"},
       consensusErr \in {Nil, "ErrConsensus"} :
        /\ Handed(block)
        /\ \E r \in {VerifyIntegrity(block, chainID, bad, consensusErr)} :
               /\ block' = r.block
               /\ ret' = [Ret("VerifyIntegrity", r.err) EXCEPT
                            !.log = <<[chainID |-> chainID, bad |-> bad,
                                       consensusErr |-> consensusErr]>>]
        /\ UNCHANGED <<parent, pool, net>>

(***************************************************************************)
(* The events of a block under construction: the executor records events   *)
(* with RecordEvent while a transaction runs between begin() and commit()  *)
(* or rollback(); FetchEvents reads them.                                  *)
(***************************************************************************)
EventHashes == {"t1", "t2"}

EventTexts == {"a", "b"}

DoBegin ==
    /\ Usable(block)
    /\ block' = begin(block)
    /\ ret' = Ret("begin", Nil)
    /\ UNCHANGED <<parent, pool, net>>

DoCommit ==
    /\ Usable(block)
    /\ block' = commit(block)
    /\ ret' = Ret("commit", Nil)
    /\ UNCHANGED <<parent, pool, net>>

DoRollback ==
    /\ Usable(block)
    /\ block' = rollback(block)
    /\ ret' = Ret("rollback", Nil)
    /\ UNCHANGED <<parent, pool, net>>

DoRecordEvent ==
    \E txHash \in EventHashes, data \in EventTexts, fail \in {"none", "iter"} :
        /\ Usable(block)
        /\ Cardinality(DOMAIN block.eventsTrie.cur) < MaxEvents
        /\ \E r \in {RecordEvent(block, txHash, "chain.contract", data, fail)} :
               /\ block' = r.block
               /\ ret' = [Ret("RecordEvent", r.err) EXCEPT
                            !.argId = txHash,
                            !.log = <<[Topic |-> "chain.contract", Data |-> data]>>]
        /\ UNCHANGED <<parent, pool, net>>

DoFetchEvents ==
    \E txHash \in EventHashes, fail \in {"none", "fetch"} :
        /\ Usable(block)
        /\ \E r \in {FetchEvents(block, txHash, fail)} :
               ret' = [Ret("FetchEvents", r.err) EXCEPT
                         !.argId = txHash, !.log = r.events]
        /\ UNCHANGED <<block, parent, pool, net>>

DoBuildData ==
    /\ net.phase = "input"
    /\ net' = [net EXCEPT !.phase = "sent",
                          !.stream = buildData(net.sender, net.data, net.msgName)]
    /\ UNCHANGED <<block, parent, pool, ret>>

DoParse ==
    /\ net.phase = "sent"
    /\ net' = [net EXCEPT !.phase = "parsed",
                          !.result = parse(net.receiver, net.stream)]
    /\ UNCHANGED <<block, parent, pool, ret>>

DoPoolPush ==
    \E tx \in Txs :
        /\ Len(pool) < MaxPool
        /\ \E r \in {PoolPush(pool, tx, parent.accState)} :
               /\ pool' = r.pool
               /\ ret' = Ret("Push", r.err)
        /\ UNCHANGED <<block, parent, net>>

Next ==
    \/ DoNewBlock
    \/ DoSetNonce
    \/ DoSetTimestamp
    \/ DoSetMiner
    \/ DoSign
    \/ DoCollectTransactions
    \/ DoSeal
    \/ DoLinkParentBlock
    \/ DoVerifyExecution
    \/ DoLoadBlockFromStorage
    \/ DoPoolPush

Spec == Init /\ [][Next]_vars

ErrMissingParentBlock == "ErrMissingParentBlock"

(* ParentBlock(): the parent the block holds, or else the block that       *)
(* storage has under the parent hash, as LoadBlockFromStorage gives it.    *)
ParentBlock(b, par, fail) ==
    IF b.parenetBlock # Nil THEN [block |-> par, err |-> Nil]
    ELSE Bind(LoadBlockFromStorage(ToProto(par), b.storage, b.txPool, b.eventEmitter, fail),
              LAMBDA r :
             IF r.err # Nil THEN [block |-> ZeroBlock, err |-> ErrMissingParentBlock]
             ELSE [block |-> r.block, err |-> Nil])

(* The parent of a block is asked for; storage holds the parent. *)
DoParentBlock ==
    \E fail \in {"none", "get", "dposFromProto"} :
        /\ block.id # Nil
        /\ \E r \in {ParentBlock(block, parent, fail)} :
               ret' = [Ret("ParentBlock", r.err) EXCEPT !.argId = r.block.id]
        /\ UNCHANGED <<block, parent, pool, net>>

(* Blocks are made and sealed, stored and loaded again, and asked for      *)
(* their parent.                                                           *)
NextLoad ==
    \/ DoNewBlock
    \/ DoSetNonce
    \/ DoSetTimestamp
    \/ DoSetMiner
    \/ DoCollectTransactions
    \/ DoSeal
    \/ DoLoadBlockFromStorage
    \/ DoParentBlock

SpecLoad == Init /\ [][NextLoad]_vars

(* A block is made and sealed; each of the calls of Seal that return an    *)
(* error may fail.                                                         *)
NextSeal ==
    \/ DoNewBlock
    \/ DoSetTimestamp
    \/ DoSetMiner
    \/ DoCollectTransactions
    \/ DoSealToProto

SpecSeal == Init /\ [][NextSeal]_vars

(* The operations that open batches, called one after the other on a      *)
(* block: it is made, filled, sealed, bound to its parent and verified.    *)
NextBatch ==
    \/ DoNewBlock
    \/ DoSetMiner
    \/ DoCollectTransactions
    \/ DoSealToProto
    \/ DoLinkParentBlock
    \/ DoVerifyExecution
    \/ DoPoolPush

SpecBatch == Init /\ [][NextBatch]_vars

(* The mining phase alone: a block is made, filled and sealed. *)
NextBuild ==
    \/ DoNewBlock
    \/ DoSetNonce
    \/ DoSetTimestamp
    \/ DoSetMiner
    \/ DoCollectTransactions
    \/ DoSeal
    \/ DoPoolPush

SpecBuild == Init /\ [][NextBuild]_vars

(* The wire framer: a node frames a payload, a node parses the frame. *)
InitFrame ==
    /\ block = ZeroBlock
    /\ parent = TailBlock
    /\ pool = <<>>
    /\ ret = Ret("Init", Nil)
    /\ net \in {[phase |-> "input", sender |-> sn, receiver |-> rn, msgName |-> nm,
                  data |-> d, stream |-> [head |-> <<>>, tail |-> Payload(0, 0, "")],
                  result |-> [err |-> Nil, protocol |-> NoProtocol, read |-> <<>>]] :
                    sn \in {n \in Nodes : n.version = 1}, rn \in Nodes,
                    nm \in Names, d \in Payloads}

NextFrame ==
    \/ DoBuildData
    \/ DoParse

SpecFrame == InitFrame /\ [][NextFrame]_vars

(* The events of a block under construction. *)
NextEvents ==
    \/ DoNewBlock
    \/ DoBegin
    \/ DoRecordEvent
    \/ DoCommit
    \/ DoRollback
    \/ DoFetchEvents

SpecEvents == Init /\ [][NextEvents]_vars

(* The receiving side alone: a block arrives, is checked, linked and verified. *)
NextVerify ==
    \/ DoReceive
    \/ DoSetMiner
    \/ DoVerifyIntegrity
    \/ DoLinkParentBlock
    \/ DoVerifyExecution

SpecVerify == Init /\ [][NextVerify]_vars

(***************************************************************************)
(* Properties.                                                             *)
(***************************************************************************)
Included(log) == SelectSeq(log, LAMBDA e : e.err = Nil)

HashSet(txs) == {txs[i].hash : i \in 1..Len(txs)}

IncludedHashes(log) == {log[i].tx.hash : i \in {k \in 1..Len(log) : log[k].err = Nil}}

LinkArg == IF ret'.argId = parent.id THEN parent ELSE ForkBlock

(* C1: a sealed block's recorded hash is the hash of its header fields and *)
(* of its transactions, whatever calls were made on the block.             *)
C1_SealedHashIsHashBlock ==
    block.sealed => HashBlock(block) = block.header.hash

C1_Witness ==
    /\ block.sealed
    /\ block.transactions # <<>>
    /\ block.header.nonce # 0
    /\ ret.op = "VerifyExecution"
    /\ ret.err = Nil

(* C2: SetNonce and SetTimestamp leave a sealed block as it is, and on an  *)
(* unsealed block change the named header field and nothing else.          *)
C2_SettersRespectSeal ==
    [][ /\ (ret'.op = "SetNonce") =>
              (block' = IF block.sealed THEN block
                        ELSE [block EXCEPT !.header.nonce = ret'.argN])
        /\ (ret'.op = "SetTimestamp") =>
              (block' = IF block.sealed THEN block
                        ELSE [block EXCEPT !.header.timestamp = ret'.argN]) ]_vars

C2_Witness ==
    /\ ret.op = "SetNonce"
    /\ block.sealed
    /\ ret.argN # block.header.nonce

(* C3: Seal on a sealed block returns ErrDoubleSealBlock and changes no    *)
(* field of the block: header, sealed flag, transactions, the four tries.  *)
C3_DoubleSealChangesNothing ==
    [][ (ret'.op = "Seal" /\ block.sealed) =>
            (ret'.err = ErrDoubleSealBlock /\ block' = block) ]_vars

C3_Witness ==
    /\ ret.op = "Seal"
    /\ ret.err = ErrDoubleSealBlock
    /\ block.transactions # <<>>

(* C4: LinkParentBlock with a parent whose hash is not the block's parent  *)
(* hash returns ErrLinkToWrongParentBlock and changes nothing; when it     *)
(* returns nil the block's height is the parent's plus one and its parent  *)
(* reference, pool, storage and event emitter are the parent's.            *)
C4_LinkParentBlock ==
    [][ (ret'.op = "LinkParentBlock") =>
            /\ (block.header.parentHash # LinkArg.header.hash) =>
                   (ret'.err = ErrLinkToWrongParentBlock /\ block' = block)
            /\ (ret'.err = Nil) =>
                   /\ block'.height = LinkArg.height + 1
                   /\ block'.parenetBlock = LinkArg.id
                   /\ block'.txPool = LinkArg.txPool
                   /\ block'.storage = LinkArg.storage
                   /\ block'.eventEmitter = LinkArg.eventEmitter ]_vars

C4_Witness ==
    /\ ret.op = "LinkParentBlock"
    /\ ret.err = ErrLinkToWrongParentBlock
    /\ ret.argId = ForkBlock.id

(* C5: a transaction that CollectTransactions includes carries the nonce   *)
(* after the sender's nonce at that moment, and including it advances the  *)
(* sender's nonce by one; the transactions of one sender stand in the      *)
(* block in ascending nonce order, each nonce one more than the previous.  *)
C5_IncludedNonceIsNext ==
    /\ (ret.op = "CollectTransactions") =>
           \A i \in 1..Len(ret.log) :
               (ret.log[i].err = Nil) =>
                   /\ ret.log[i].tx.nonce = ret.log[i].nonceBefore + 1
                   /\ ret.log[i].nonceAfter = ret.log[i].nonceBefore + 1
    /\ \A i, j \in 1..Len(block.transactions) :
           (i < j /\ block.transactions[i].from = block.transactions[j].from) =>
               /\ block.transactions[i].nonce < block.transactions[j].nonce
               /\ (\A k \in (i + 1)..(j - 1) :
                       block.transactions[k].from # block.transactions[i].from) =>
                      (block.transactions[j].nonce = block.transactions[i].nonce + 1)

C5_Witness ==
    /\ ret.op = "CollectTransactions"
    /\ \E i, j \in 1..Len(ret.log) :
           /\ i < j
           /\ ret.log[i].err = Nil
           /\ ret.log[j].err = Nil
           /\ ret.log[i].tx.from = ret.log[j].tx.from

(* C6: a popped transaction whose hash is in the block's txs trie, be it   *)
(* from this block or from the parent, gets ErrDuplicatedTransaction, is   *)
(* not given back, and leaves the transaction list and the four roots as   *)
(* they were; no hash stands twice in the block's transaction list.        *)
C6_DuplicateRejected ==
    /\ (ret.op = "CollectTransactions") =>
           \A i \in 1..Len(ret.log) :
               ret.log[i].dup =>
                   /\ ret.log[i].err = ErrDuplicatedTransaction
                   /\ ~ret.log[i].giveback
                   /\ ret.log[i].tx.hash \notin HashSet(ret.givebacks)
                   /\ ret.log[i].txsAfter = ret.log[i].txsBefore
                   /\ ret.log[i].after = ret.log[i].before
    /\ \A i, j \in 1..Len(block.transactions) :
           (i # j) => (block.transactions[i].hash # block.transactions[j].hash)

C6_Witness ==
    /\ ret.op = "CollectTransactions"
    /\ \E i \in 1..Len(ret.log) :
           /\ ret.log[i].dup
           /\ ret.log[i].tx.hash \in DOMAIN parent.txsTrie.cur
           /\ block.transactions # <<>>

(* C7: NewBlock gives an unsealed block on the parent: parent hash, nonce  *)
(* 0, the chain id, the parent's height plus one, no transactions, the     *)
(* parent's storage, pool and emitter, the parent's account state with     *)
(* BlockReward added once to the coinbase, committed with no batch open,   *)
(* the other tries as the parent's; the parent is unchanged.               *)
C7_NewBlock ==
    [][ (ret'.op = "NewBlock" /\ ret'.err = Nil) =>
            LET c  == parent.accState.cur
                cb == block'.header.coinbase
                old == IF cb \in DOMAIN c THEN c[cb] ELSE [balance |-> 0, nonce |-> 0]
            IN  /\ ~block'.sealed
                /\ block'.header.parentHash = parent.header.hash
                /\ block'.header.nonce = 0
                /\ block'.header.chainID = ChainID
                /\ block'.height = parent.height + 1
                /\ block'.transactions = <<>>
                /\ block'.storage = parent.storage
                /\ block'.txPool = parent.txPool
                /\ block'.eventEmitter = parent.eventEmitter
                /\ block'.accState.cur =
                       [a \in (DOMAIN c) \cup {cb} |->
                           IF a = cb
                           THEN [balance |-> old.balance + BlockReward,
                                 nonce |-> old.nonce]
                           ELSE c[a]]
                /\ block'.accState.saved = block'.accState.cur
                /\ ~BatchOpen(block')
                /\ block'.txsTrie.cur = parent.txsTrie.cur
                /\ block'.eventsTrie.cur = parent.eventsTrie.cur
                /\ block'.dposContext.cur = parent.dposContext.cur
                /\ parent' = parent ]_vars

C7_Witness ==
    /\ ret.op = "NewBlock"
    /\ ret.err = Nil
    /\ ~block.sealed
    /\ AccBalance(block.accState, block.header.coinbase) =
           AccBalance(parent.accState, block.header.coinbase) + BlockReward

(* C8: CollectTransactions(n) on an unsealed block appends the             *)
(* transactions that executed without error, in pop order, at most n of    *)
(* them, each committed; on a sealed block it changes neither the block    *)
(* nor the pool.                                                           *)
C8_CollectAtMostN ==
    [][ (ret'.op = "CollectTransactions") =>
            LET inc == Included(ret'.log)
            IN  /\ Len(inc) <= ret'.argN
                /\ block'.transactions =
                       block.transactions \o [i \in 1..Len(inc) |-> inc[i].tx]
                /\ \A i \in 1..Len(inc) :
                       /\ ~inc[i].open
                       /\ inc[i].after = inc[i].staged
                       /\ inc[i].txsAfter = Append(inc[i].txsBefore, inc[i].tx.hash)
                /\ block.sealed =>
                       (block' = block /\ pool' = pool /\ ret'.log = <<>>) ]_vars

C8_Witness ==
    /\ ret.op = "CollectTransactions"
    /\ ret.argN = 1
    /\ Len(Included(ret.log)) = 1
    /\ ret.givebacks = <<>>
    /\ pool # <<>>

(* C9: a transaction that fails in CollectTransactions leaves the account  *)
(* state, txs, events and DPoS context roots as they were before its       *)
(* begin(), also when the executor had already changed the state.          *)
C9_FailedTxRolledBack ==
    (ret.op = "CollectTransactions") =>
        \A i \in 1..Len(ret.log) :
            (ret.log[i].err # Nil) =>
                (ret.log[i].after = ret.log[i].before /\ ~ret.log[i].open)

C9_Witness ==
    /\ ret.op = "CollectTransactions"
    /\ \E i \in 1..Len(ret.log) :
           /\ ret.log[i].err = "ErrExecutionFailed"
           /\ ret.log[i].staged.state # ret.log[i].before.state
           /\ ret.log[i].staged.events # ret.log[i].before.events

(* C10: a popped transaction with a nonce beyond the next one is not       *)
(* included, is popped once, is back in the pool only after the loop, and  *)
(* is in the pool on return; one with a nonce below the next one is        *)
(* neither included nor put back; none is both included and given back.    *)
(* With the next nonce and the one two after it in the pool, the block     *)
(* gets the first and the pool keeps the second.                           *)
C10_NonceGiveback ==
    [][ (ret'.op = "CollectTransactions") =>
            /\ \A i \in 1..Len(ret'.log) :
                   LET e == ret'.log[i]
                   IN  /\ (e.tx.nonce > e.nonceBefore + 1) =>
                              /\ e.err = ErrLargeTransactionNonce
                              /\ e.giveback
                              /\ e.txsAfter = e.txsBefore
                              /\ e.tx.hash \notin IncludedHashes(ret'.log)
                              /\ \A j \in 1..Len(ret'.log) :
                                     /\ (j # i) => (ret'.log[j].tx.hash # e.tx.hash)
                                     /\ (j >= i) => ~InPool(ret'.log[j].poolAfter, e.tx)
                              /\ InPool(pool', e.tx)
                       /\ (e.tx.nonce < e.nonceBefore + 1) =>
                              /\ e.err # Nil
                              /\ ~e.giveback
                              /\ e.txsAfter = e.txsBefore
                              /\ ~InPool(pool', e.tx)
                       /\ ~(e.err = Nil /\ e.giveback)
            /\ HashSet(ret'.givebacks) \cap IncludedHashes(ret'.log) = {}
            /\ ( /\ ~block.sealed
                 /\ ret'.argN >= 2
                 /\ Len(pool) = 2
                 /\ pool[1].from = pool[2].from
                 /\ pool[1].nonce = AccNonce(block.accState, pool[1].from) + 1
                 /\ pool[2].nonce = pool[1].nonce + 2
                 /\ executeTransaction(begin(block), pool[1]).err = Nil ) =>
                   /\ block'.transactions = Append(block.transactions, pool[1])
                   /\ pool' = <<pool[2]>> ]_vars

C10_Witness ==
    /\ ret.op = "CollectTransactions"
    /\ ret.argN = 2
    /\ Len(ret.log) = 2
    /\ ret.log[1].err = Nil
    /\ ret.log[2].err = ErrLargeTransactionNonce
    /\ ret.log[2].tx.nonce = ret.log[1].tx.nonce + 2
    /\ TxHashes(block.transactions) = <<ret.log[1].tx.hash>>
    /\ pool = <<ret.log[2].tx>>

(* C11: a successful Seal adds one to the mint count under the key of the  *)
(* block's dynasty and miner (1 when there was none) and commits it, sets  *)
(* the header roots to the roots of the account state, txs trie and events *)
(* trie, the header DPoS context to the roots of the DPoS context, and the *)
(* hash to the hash of that header; the block is sealed only then, and a   *)
(* failing Seal does not seal it.                                          *)
C11_SealRecordsMintAndRoots ==
    [][ (ret'.op = "Seal") =>
            LET key == MintCntKey(block)
                mc  == block.dposContext.cur.mintCnt
                mc2 == block'.dposContext.cur.mintCnt
                old == IF key \in DOMAIN mc THEN mc[key] ELSE 0
            IN  /\ (ret'.err = Nil) =>
                       /\ ~block.sealed
                       /\ DOMAIN mc2 = (DOMAIN mc) \cup {key}
                       /\ mc2[key] = old + 1
                       /\ \A k \in (DOMAIN mc) \ {key} : mc2[k] = mc[k]
                       /\ block'.dposContext.cur.dynasty = block.dposContext.cur.dynasty
                       /\ block'.dposContext.saved = block'.dposContext.cur
                       /\ ~BatchOpen(block')
                       /\ block'.accState.cur = block.accState.cur
                       /\ block'.txsTrie.cur = block.txsTrie.cur
                       /\ block'.eventsTrie.cur = block.eventsTrie.cur
                       /\ block'.transactions = block.transactions
                       /\ block'.header.stateRoot = RootHash(block'.accState)
                       /\ block'.header.txsRoot = RootHash(block'.txsTrie)
                       /\ block'.header.eventsRoot = RootHash(block'.eventsTrie)
                       /\ block'.header.dposContext = DposToProto(block'.dposContext)
                       /\ block'.header.hash = HashBlock(block')
                       /\ block'.sealed
                /\ (ret'.err # Nil) => (block'.sealed = block.sealed) ]_vars

C11_Witness ==
    /\ ret.op = "Seal"
    /\ ret.err = Nil
    /\ block.sealed
    /\ block.transactions # <<>>
    /\ MintCnt(block) = 2

C13_NoGivebackInExecution ==
    [][ (ret'.op = "VerifyExecution" /\ ret'.err # Nil) =>
            /\ pool' = pool
            /\ (/\ ret'.log[1].consensusErr = Nil
                /\ Len(block.transactions) = 1
                /\ block.transactions[1].hash \notin DOMAIN block.txsTrie.cur
                /\ block.transactions[1].nonce >
                       AccNonce(block.accState, block.transactions[1].from) + 1)
               => ret'.err = ErrLargeTransactionNonce ]_vars

(* A block holding only a transaction with a nonce beyond the next one was *)
(* rejected, and the transaction is now in the pool.                       *)
C13_Witness ==
    /\ ret.op = "VerifyExecution"
    /\ ret.err = ErrLargeTransactionNonce
    /\ TxHashes(block.transactions) = <<"t4">>
    /\ InPool(pool, TxByHash("t4"))
    /\ ~BatchOpen(block)

(* C14: events are triggered only by a VerifyExecution that has committed: *)
(* a call that triggered an event is a VerifyExecution that returned nil,  *)
(* the block has no batch open and nothing uncommitted, and every          *)
(* transaction event is about a transaction in the committed txs trie; a   *)
(* failing VerifyExecution, NewBlock, CollectTransactions and Seal trigger *)
(* nothing.                                                                *)
C14_TriggerOnlyAfterCommit ==
    (ret.events # <<>>) =>
        /\ ret.op = "VerifyExecution"
        /\ ret.err = Nil
        /\ ~BatchOpen(block)
        /\ block.accState.saved = block.accState.cur
        /\ block.txsTrie.saved = block.txsTrie.cur
        /\ block.eventsTrie.saved = block.eventsTrie.cur
        /\ block.dposContext.saved = block.dposContext.cur
        /\ \A i \in 1..Len(ret.events) :
               \/ /\ ret.events[i].Topic = "chain.linkBlock"
                  /\ ret.events[i].Data = block.header.hash
               \/ ret.events[i].Data \in DOMAIN block.txsTrie.saved

C14_Witness ==
    /\ ret.op = "VerifyExecution"
    /\ ret.err = Nil
    /\ Len(ret.events) >= 3
    /\ Len(block.transactions) = 2

(* The events the specification releases for the transactions txs of b. *)
RECURSIVE ReleasedEvents(_, _)
ReleasedEvents(b, txs) ==
    IF txs = <<>> THEN <<>>
    ELSE <<[Topic |-> TxTopic(Head(txs)), Data |-> Head(txs).hash]>>
         \o [k \in 1..EventCount(b.eventsTrie, Head(txs).hash) |->
                JsonUnmarshal(b.eventsTrie.cur[<<Head(txs).hash, FromInt64(k)>>])]
         \o ReleasedEvents(b, Tail(txs))

(* C15: after a successful VerifyExecution whose event fetches succeed,    *)
(* the events triggered are, for every transaction of the block in order,  *)
(* one event with the topic of its payload type followed by every event    *)
(* recorded in the events trie under its hash, and one chain.linkBlock     *)
(* event last.  The code triggers the recorded events only when the fetch  *)
(* fails, so this statement does not hold of it.                           *)
C15_RecordedEventsTriggered ==
    (ret.op = "VerifyExecution" /\ ret.err = Nil /\ ret.log[1].fail # "fetch") =>
        ret.events = ReleasedEvents(block, block.transactions)
                     \o <<[Topic |-> "chain.linkBlock", Data |-> block.header.hash]>>

(* A block with a contract call was verified and committed, one event is   *)
(* recorded under the call's hash, and no recorded event was triggered.    *)
C15_Witness ==
    /\ ret.op = "VerifyExecution"
    /\ ret.err = Nil
    /\ ret.log[1].fail = "none"
    /\ TxHashes(block.transactions) = <<"t1">>
    /\ EventCount(block.eventsTrie, "t1") = 1
    /\ ret.events = <<[Topic |-> "chain.callContract", Data |-> "t1"],
                      [Topic |-> "chain.linkBlock", Data |-> block.header.hash]>>

(* The positions of the block's transactions whose integrity check fails. *)
BadTxs == {i \in 1..Len(block.transactions) :
              block.transactions[i].hash \in ret'.log[1].bad}

(* C16: VerifyIntegrity returns the first failure of: the header chain id  *)
(* differs from the given one (ErrInvalidChainID), HashBlock differs from  *)
(* the stored hash (ErrInvalidBlockHash), a transaction's own integrity    *)
(* check fails (its error, for the first such transaction), the consensus  *)
(* rejects (its error); it returns nil exactly when all four pass, and it  *)
(* leaves the block as it was.                                             *)
C16_VerifyIntegrity ==
    [][ (ret'.op = "VerifyIntegrity") =>
            /\ block' = block
            /\ pool' = pool
            /\ ret'.err =
                 IF block.header.chainID # ret'.log[1].chainID
                 THEN ErrInvalidChainID
                 ELSE IF HashBlock(block) # block.header.hash
                 THEN ErrInvalidBlockHash
                 ELSE IF BadTxs # {}
                 THEN "ErrInvalidTransaction:" \o
                      block.transactions[CHOOSE i \in BadTxs :
                                             \A j \in BadTxs : i <= j].hash
                 ELSE ret'.log[1].consensusErr
            /\ (ret'.err = Nil) <=>
                   /\ block.header.chainID = ret'.log[1].chainID
                   /\ HashBlock(block) = block.header.hash
                   /\ BadTxs = {}
                   /\ ret'.log[1].consensusErr = Nil ]_vars

(* Chain id and hash were right, the second transaction failed its check,  *)
(* and the consensus would have rejected too.                              *)
C16_Witness ==
    /\ ret.op = "VerifyIntegrity"
    /\ ret.err = "ErrInvalidTransaction:t2"
    /\ ret.log[1].consensusErr # Nil
    /\ ret.log[1].bad = {"t2"}
    /\ TxHashes(block.transactions) = <<"t1", "t2">>
    /\ HashBlock(block) = block.header.hash

(* C17: for a block made by NewBlock, CollectTransactions and Seal, the    *)
(* sealed state root and txs root (and the events root) are the roots that *)
(* the verification path reaches: fresh clones of the parent's overlays,   *)
(* the coinbase reward once, the block's transactions in order, the mint   *)
(* count; that path fails on none of the block's transactions.             *)
C17_ReplayReproducesRoots ==
    block.sealed =>
        \E e \in {execute(begin(LinkParentBlock(block, parent, "none").block),
                          pool, parent.accState, "none")} :
            /\ e.err = Nil
            /\ e.pool = pool
            /\ RootHash(e.block.accState) = block.header.stateRoot
            /\ RootHash(e.block.txsTrie) = block.header.txsRoot
            /\ RootHash(e.block.eventsTrie) = block.header.eventsRoot

C17_Witness ==
    /\ block.sealed
    /\ ret.op = "Seal"
    /\ ret.err = Nil
    /\ TxHashes(block.transactions) = <<"t1", "t2">>
    /\ block.header.stateRoot = RootHash(block.accState)

(* The DPoS context a block sealed on the parent without transactions has: *)
(* the parent's, with one more block minted under the block's key.         *)
SealedDpos ==
    [parent.dposContext EXCEPT
        !.cur.mintCnt = Put(@, MintCntKey(block),
                            (IF MintCntKey(block) \in DOMAIN @
                             THEN @[MintCntKey(block)] ELSE 0) + 1)]

C19_EventIndices ==
    [][ /\ \A h \in EventHashes :
               EventIndices(block'.eventsTrie, h) =
                   1..EventCount(block'.eventsTrie, h)
        /\ (ret'.op = "RecordEvent" /\ ret'.err = Nil) =>
               /\ DOMAIN block'.eventsTrie.cur =
                      (DOMAIN block.eventsTrie.cur) \cup
                      {<<ret'.argId,
                         FromInt64(EventCount(block.eventsTrie, ret'.argId) + 1)>>}
               /\ \A k \in DOMAIN block.eventsTrie.cur :
                      block'.eventsTrie.cur[k] = block.eventsTrie.cur[k]
               /\ FetchEvents(block', ret'.argId, "none").events =
                      Append(FetchEvents(block, ret'.argId, "none").events,
                             ret'.log[1])
               /\ \A h \in EventHashes \ {ret'.argId} :
                      FetchEvents(block', h, "none") = FetchEvents(block, h, "none")
        /\ (ret'.op = "FetchEvents" /\ ret'.err = Nil) =>
               /\ Len(ret'.log) = EventCount(block.eventsTrie, ret'.argId)
               /\ \A k \in 1..Len(ret'.log) :
                      ret'.log[k] = JsonUnmarshal(
                          block.eventsTrie.cur[<<ret'.argId, FromInt64(k)>>]) ]_vars

(* Two events are under t1, the second recorded in the batch that is open, *)
(* one event is under t2, and FetchEvents returned the two of t1 in order. *)
C19_Witness ==
    /\ ret.op = "FetchEvents"
    /\ ret.err = Nil
    /\ ret.argId = "t1"
    /\ ret.log = <<[Topic |-> "chain.contract", Data |-> "b"],
                   [Topic |-> "chain.contract", Data |-> "a"]>>
    /\ EventCount(block.eventsTrie, "t2") = 1
    /\ block.eventsTrie.batch
    /\ EventCount([block.eventsTrie EXCEPT !.cur = block.eventsTrie.saved], "t1") = 1

(* The name field of a header: the name, then NUL bytes up to 12 bytes. *)
Padded(name) ==
    [i \in 1..(offsetTwentyFour - offsetTwelve) |->
        IF i <= Len(name) THEN name[i] ELSE 0]

(* A name of at most 12 bytes without a NUL byte. *)
GoodName(name) ==
    /\ Len(name) <= offsetTwentyFour - offsetTwelve
    /\ \A i \in 1..Len(name) : name[i] # 0

(* The frame of the message is laid out as the format says. *)
FrameLaidOut ==
    /\ Len(net.stream.head) = offsetThirtySix
    /\ net.stream.tail = net.data
    /\ net.stream.head =
           MagicNumber
           \o FromUint32Bytes(net.sender.chainID)
           \o <<0, 0, 0>>
           \o <<net.sender.version>>
           \o Padded(net.msgName)
           \o FromUint32Bytes(Uint32Len(net.data))
           \o FromUint32Bytes(ChecksumIEEE(net.data))
           \o FromUint32Bytes(ChecksumIEEE(SubSeq(net.stream.head, 1, offsetThirtyTwo)))

(* parse returned the name and the payload that were framed. *)
ParsedBack ==
    /\ net.result.err = Nil
    /\ net.result.protocol.msgName = net.msgName
    /\ net.result.protocol.data = net.data

(* C20, as amended: for every payload D of fewer than 2^32 bytes and every *)
(* name of at most 12 bytes without a NUL byte, buildData gives 36 bytes   *)
(* of header (magic, chain id, reserved, version, NUL-padded name, data    *)
(* length, data checksum, header checksum) followed by D, and parse on a   *)
(* node with the same chain id and version returns that name and D         *)
(* without error.                                                          *)
C20_FrameRoundTrip ==
    (net.phase \in {"sent", "parsed"} /\ GoodName(net.msgName) /\ net.data.hi = 0) =>
        /\ FrameLaidOut
        /\ (net.phase = "parsed" /\ net.receiver = net.sender) => ParsedBack

(* C20, as stated: the same for every payload D.  The data length field    *)
(* has 32 bits, so a payload of 2^32 bytes or more is not parsed back.     *)
C20_FrameRoundTripAnyPayload ==
    (net.phase \in {"sent", "parsed"} /\ GoodName(net.msgName)) =>
        /\ FrameLaidOut
        /\ (net.phase = "parsed" /\ net.receiver = net.sender) => ParsedBack

C20_Witness ==
    /\ net.phase = "parsed"
    /\ net.receiver = net.sender
    /\ net.sender.chainID = 258
    /\ Len(net.msgName) = 12
    /\ GoodName(net.msgName)
    /\ net.data = Payload(0, 2, "x")
    /\ ParsedBack

(***************************************************************************)
(* Peer sessions.  The nodes that run the net service hold the maps of a   *)
(* Node: stream (peer key -> stream store), streamCache, routeTable,       *)
(* peerstore (peer -> address TTL), networkIDCache, relayness (payload     *)
(* checksum -> forwarders) and bootIds; queue is what PutMessage handed to *)
(* the dispatcher.  A stream joins the node that opened it (from) and the  *)
(* node that accepted it (to); inbox[n] holds the frames n has yet to      *)
(* read, closed the ends that closed it, loop[n] the position of n's       *)
(* stream handler.  A message name is the sequence of its bytes, a payload *)
(* the record of Payload with the text of its content as body.             *)
(***************************************************************************)
MaxStreams == 2
MaxFrames == 2
MaxSend == 1

(* Streams in the runs of the stream cache. *)
MaxCached == 3

(* node.config.StreamStoreSize in these runs *)
StreamStoreSize == 1

SNC == -1
SHandshaking == 0
SOK == 1

HELLO == <<104, 101, 108, 108, 111>>
OK == <<111, 107>>
BYE == <<98, 121, 101>>
SyncRoute == <<115, 121, 110, 99, 114, 111, 117, 116, 101>>
SyncRouteReply == <<114, 101>> \o SyncRoute
NewHashMsg == <<110, 101, 119, 104, 97, 115, 104, 109, 115, 103>>
NetworkID == <<110, 101, 116, 119, 111, 114, 107, 105, 100>>
NetworkIDReply == <<114, 101>> \o NetworkID
ClientVersion == "0.2.0"

(* A name that is none of the above: a block or transaction message. *)
NewBlockMsg == <<110, 101, 119, 98, 108, 111, 99, 107>>

PermanentAddrTTL == "permanent"
ProviderAddrTTL == "provider"

Ids == {"L", "P", "Q"}

(* pid.Pretty() is the key of the maps, pid.String() the NodeID of a hello. *)
Pretty(pid) == pid

String(pid) == "<peer.ID " \o pid \o ">"

(* The network ids (membership masks) of the model, and their texts. *)
NetworkIDs == {3, 4, 6}

Digit(v) == <<"1", "2", "3", "4", "5", "6", "7">>[v]

(* x & y on unsigned numbers *)
RECURSIVE BitAnd(_, _)
BitAnd(x, y) ==
    IF x = 0 \/ y = 0 THEN 0
    ELSE (IF x % 2 = 1 /\ y % 2 = 1 THEN 1 ELSE 0) + 2 * BitAnd(x \div 2, y \div 2)

(* byteutils.FromUint32 as a payload of four bytes, and byteutils.Uint32   *)
(* of a payload: the number its first four bytes code.                     *)
U32Data(v) == Payload(0, 4, "u32/" \o Digit(v))

Uint32Data(data) ==
    IF \E v \in NetworkIDs : U32Data(v) = data
    THEN CHOOSE v \in NetworkIDs : U32Data(v) = data
    ELSE 0

(* messages.HelloMessage, and its protobuf coding. *)
NewHelloMessage(nodeID, clientVersion) ==
    [NodeID |-> nodeID, ClientVersion |-> clientVersion]

HelloMessages ==
    {NewHelloMessage(String(i), v) : i \in Ids, v \in {ClientVersion, "0.1.0"}}

Marshal(m) == Payload(0, 2, "hello/" \o m.NodeID \o "/" \o m.ClientVersion)

Unmarshal(data) ==
    IF \E m \in HelloMessages : Marshal(m) = data
    THEN [err |-> Nil, pb |-> CHOOSE m \in HelloMessages : Marshal(m) = data]
    ELSE [err |-> "proto: cannot parse", pb |-> NewHelloMessage("", "")]

(* messages.Peers: the peers a sync route reply names, with the number of  *)
(* addresses of each.                                                      *)
PeerLists ==
    {<<>>} \cup {<<[id |-> i, addrs |-> a]>> : i \in Ids, a \in 0..1}

MarshalPeers(l) ==
    IF l = <<>> THEN Payload(0, 1, "peers/")
    ELSE Payload(0, 2, "peers/" \o l[1].id \o "/" \o (IF l[1].addrs = 0 THEN "0" ELSE "1"))

UnmarshalPeers(data) ==
    IF \E l \in PeerLists : MarshalPeers(l) = data
    THEN [err |-> Nil, peers |-> CHOOSE l \in PeerLists : MarshalPeers(l) = data]
    ELSE [err |-> "proto: cannot parse", peers |-> <<>>]

(* A node before it has met anyone. *)
NewNode(id, networkID, bootIds) ==
    [id |-> id,
     config |-> [ChainID |-> ChainID, NetworkID |-> networkID],
     version |-> 1,
     stream |-> <<>>,
     streamCache |-> {},
     routeTable |-> {},
     peerstore |-> [p \in Ids |-> "none"],
     networkIDCache |-> <<>>,
     relayness |-> <<>>,
     bootIds |-> bootIds,
     queue |-> <<>>]

NewStreamStore(key, conn, stream) == [key |-> key, conn |-> conn, stream |-> stream]

(* The chain id and version that frame and check a node's messages. *)
Framer(nd) == [chainID |-> nd.config.ChainID, version |-> nd.version]

(* What the last run of a handler or call did. *)
NoLast ==
    [op |-> "none", node |-> "", stream |-> 0, msgName |-> <<>>, err |-> Nil,
     wrote |-> <<>>, bye |-> FALSE, put |-> <<>>, read |-> <<>>, popped |-> <<>>,
     pre |-> NewStreamStore("", SNC, 0), target |-> "",
     frame |-> [head |-> <<>>, tail |-> Payload(0, 0, "")]]

(* s.Conn().RemotePeer() *)
RemotePeer(st, n) == IF st.from = n THEN st.to ELSE st.from

Delete(f, k) == [x \in (DOMAIN f) \ {k} |-> f[x]]

(* A stream between two nodes, as NewStream makes it: the node that        *)
(* accepts it runs its stream handler from the start when it runs the net  *)
(* service at all.                                                         *)
NewStream(from, to, honest) ==
    [from |-> from, to |-> to,
     inbox |-> [x \in {from, to} |-> <<>>],
     closed |-> {},
     count |-> 0,
     loop |-> [x \in {from, to} |-> IF x = to /\ to \in honest THEN "run" ELSE "none"],
     get |-> [x \in {from, to} |->
                 [key |-> ChecksumIEEE(Payload(0, 0, "")), found |-> <<>>]]]

(* Write(stream, totalData), when it succeeds: the other end has the frame *)
(* to read, and the run of the handler has written it.                     *)
Written(w, n, s, frame, msgName, msg) ==
    Bind(RemotePeer(w.streams[s], n), LAMBDA pid :
        [w EXCEPT !.streams[s].inbox[pid] =
                      IF pid \in w.env.honest THEN Append(@, frame) ELSE @,
                  !.last.wrote = Append(@, [stream |-> s, msgName |-> msgName,
                                            data |-> msg])])

(* The fault of the run: the first or the second write of the run fails,   *)
(* or no stream can be opened.  A node cannot write to a stream it closed. *)
WriteFails(w, n, s, fail) ==
    \/ n \in w.streams[s].closed
    \/ fail = "write1" /\ Len(w.last.wrote) = 0
    \/ fail = "write2" /\ Len(w.last.wrote) = 1

sendMsg(w, n, msgName, msg, s, fail) ==
    IF WriteFails(w, n, s, fail)
    THEN [w |-> w, err |-> "write data occurs error"]
    ELSE [w |-> Written(w, n, s, buildData(Framer(w.node[n]), msg, msgName), msgName, msg),
          err |-> Nil]

(* Variant of clearPeerStore that removes boot nodes as well. *)
clearPeerStore_RemovesBoot(w, n, pid) ==
    [w EXCEPT !.node[n].peerstore[pid] = "0",
              !.node[n].routeTable = @ \ {pid}]

clearPeerStore(w, n, pid) ==
    [w EXCEPT !.node[n].peerstore[pid] = "0",
              !.node[n].routeTable =
                  IF Pretty(pid) \in w.node[n].bootIds THEN @ ELSE @ \ {pid}]

Bye(w, n, pid, s, key) ==
    [clearPeerStore(w, n, pid) EXCEPT
        !.node[n].stream = Delete(@, key),
        !.streams[s].closed = @ \cup {n},
        !.last.bye = TRUE]

(* Variant of checkNetworkID that takes any cached network id. *)
checkNetworkID_AnyCached(w, n, target) ==
    target \in DOMAIN w.node[n].networkIDCache

checkNetworkID(w, n, target) ==
    /\ target \in DOMAIN w.node[n].networkIDCache
    /\ BitAnd(w.node[n].config.NetworkID, w.node[n].networkIDCache[target]) > 0

SendMsg(w, n, msgName, msg, target, fail) ==
    IF msgName # NetworkID /\ ~checkNetworkID(w, n, target)
    THEN [w |-> w, err |-> "can not send message, target node is not in the same network"]
    ELSE IF target \notin DOMAIN w.node[n].stream
    THEN [w |-> w, err |-> "handleSyncRouteMsg occrus error, stream does not exist"]
    ELSE sendMsg(w, n, msgName, msg, w.node[n].stream[target].stream, fail)

(* Hello opens a stream to pid, writes hello on it and starts the stream   *)
(* handler of this end.  No stream to the node itself, and none beyond     *)
(* the number of streams of the model, can be opened.                      *)
Hello(w, n, pid, fail) ==
    IF fail = "stream" \/ pid = n \/ Len(w.streams) >= w.env.streams
    THEN [w |-> w, err |-> "dial failed"]
    ELSE Bind(Len(w.streams) + 1, LAMBDA s :
         Bind(sendMsg([w EXCEPT !.streams = Append(@, NewStream(n, pid, w.env.honest))],
                      n, HELLO, Marshal(NewHelloMessage(String(w.node[n].id), ClientVersion)),
                      s, fail), LAMBDA r :
            IF r.err # Nil THEN r
            ELSE [w |-> [r.w EXCEPT !.streams[s].loop[n] = "run"], err |-> Nil]))

(* Variant of handleHelloMsg that stores the stream before it writes. *)
handleHelloMsg_StoresFirst(w, n, data, pid, s, key, fail) ==
    Bind(Unmarshal(data), LAMBDA u :
    IF u.err # Nil THEN Bye(w, n, pid, s, key)
    ELSE IF ~(u.pb.NodeID = String(pid) /\ u.pb.ClientVersion = ClientVersion)
    THEN Bye(w, n, pid, s, key)
    ELSE
    Bind(sendMsg([w EXCEPT
                     !.node[n].peerstore[pid] = PermanentAddrTTL,
                     !.node[n].stream = Put(@, key, NewStreamStore(key, SOK, s)),
                     !.node[n].streamCache = @ \cup {NewStreamStore(key, SOK, s)},
                     !.node[n].routeTable = @ \cup {pid}], n, OK,
                 Marshal(NewHelloMessage(String(w.node[n].id), ClientVersion)), s, fail),
         LAMBDA r1 :
    IF r1.err # Nil THEN r1.w
    ELSE sendMsg(r1.w, n, NetworkID, U32Data(w.node[n].config.NetworkID), s, fail).w))

(* Each handler returns the node after it; a handler that fails says Bye.  *)
handleHelloMsg(w, n, data, pid, s, key, fail) ==
    Bind(Unmarshal(data), LAMBDA u :
    IF u.err # Nil THEN Bye(w, n, pid, s, key)
    ELSE IF ~(u.pb.NodeID = String(pid) /\ u.pb.ClientVersion = ClientVersion)
    THEN Bye(w, n, pid, s, key)
    ELSE
    Bind(sendMsg([w EXCEPT !.node[n].peerstore[pid] = PermanentAddrTTL], n, OK,
                 Marshal(NewHelloMessage(String(w.node[n].id), ClientVersion)), s, fail),
         LAMBDA r1 :
    IF r1.err # Nil THEN Bye(r1.w, n, pid, s, key)
    ELSE
    Bind(sendMsg(r1.w, n, NetworkID, U32Data(w.node[n].config.NetworkID), s, fail),
         LAMBDA r2 :
    IF r2.err # Nil THEN Bye(r2.w, n, pid, s, key)
    ELSE [r2.w EXCEPT
             !.node[n].stream = Put(@, key, NewStreamStore(key, SOK, s)),
             !.node[n].streamCache = @ \cup {NewStreamStore(key, SOK, s)},
             !.node[n].routeTable = @ \cup {pid}])))

handleOkMsg(w, n, data, pid, s, key) ==
    Bind(Unmarshal(data), LAMBDA u :
    IF u.err # Nil THEN Bye(w, n, pid, s, key)
    ELSE IF u.pb.NodeID = String(pid) /\ u.pb.ClientVersion = ClientVersion
    THEN [w EXCEPT
             !.node[n].stream = Put(@, key, NewStreamStore(key, SOK, s)),
             !.node[n].streamCache = @ \cup {NewStreamStore(key, SOK, s)},
             !.node[n].peerstore[pid] = PermanentAddrTTL,
             !.node[n].routeTable = @ \cup {pid}]
    ELSE Bye(w, n, pid, s, key))

(* Variant of handleNetworkIDMsg that sends no reply. *)
handleNetworkIDMsg_NoReply(w, n, data, pid, s, fail) ==
    [w EXCEPT !.node[n].networkIDCache = Put(@, Pretty(pid), Uint32Data(data))]

(* Variant of handleNetworkIDMsg that answers with a networkid message. *)
handleNetworkIDMsg_RepliesNetworkID(w, n, data, pid, s, fail) ==
    sendMsg([w EXCEPT !.node[n].networkIDCache = Put(@, Pretty(pid), Uint32Data(data))],
            n, NetworkID, U32Data(w.node[n].config.NetworkID), s, fail).w

(* networkIDCache.Add, then sendMsg of the reply.  Where another thread of *)
(* the node runs beside the stream handler (w.env.threads), the handler    *)
(* stands between the two calls after this step.                           *)
handleNetworkIDMsg(w, n, data, pid, s, fail) ==
    IF w.env.threads
    THEN [w EXCEPT !.node[n].networkIDCache = Put(@, Pretty(pid), Uint32Data(data)),
                   !.streams[s].loop[n] = "reply"]
    ELSE sendMsg([w EXCEPT !.node[n].networkIDCache = Put(@, Pretty(pid), Uint32Data(data))],
                 n, NetworkIDReply, U32Data(w.node[n].config.NetworkID), s, fail).w

(* The second half of handleNetworkIDMsg: the reply is written. *)
sendNetworkIDReply(w, n, s, fail) ==
    [sendMsg(w, n, NetworkIDReply, U32Data(w.node[n].config.NetworkID), s, fail).w
        EXCEPT !.streams[s].loop[n] = "run"]


handleReNetworkIDMsg(w, n, data, pid) ==
    [w EXCEPT !.node[n].networkIDCache = Put(@, Pretty(pid), Uint32Data(data))]

(* routeTable.NearestPeers(pid, MaxSyncNodes) with MaxSyncNodes = 1: the   *)
(* peer itself when the table has it, else one peer of the table.          *)
NearestPeers(routeTable, pid) ==
    IF pid \in routeTable THEN <<pid>>
    ELSE IF routeTable = {} THEN <<>>
    ELSE <<CHOOSE p \in routeTable : TRUE>>

HasAddrs(nd, p) == nd.peerstore[p] \in {PermanentAddrTTL, ProviderAddrTTL}

(* SyncRoutes(pid), called by the discovery thread of the node. *)
SyncRoutes(w, n, pid, fail) ==
    IF ~HasAddrs(w.node[n], pid) THEN clearPeerStore(w, n, pid)
    ELSE Bind(SendMsg(w, n, SyncRoute, Payload(0, 0, ""), Pretty(pid), fail), LAMBDA r :
             IF r.err # Nil
             THEN [clearPeerStore(r.w, n, pid) EXCEPT !.last.err = r.err]
             ELSE r.w)

handleSyncRouteMsg(w, n, data, pid, s, key, fail) ==
    Bind(NearestPeers(w.node[n].routeTable, pid), LAMBDA peers :
    Bind(IF peers # <<>> /\ HasAddrs(w.node[n], peers[1])
         THEN <<[id |-> peers[1], addrs |-> 1]>> ELSE <<>>, LAMBDA peerList :
    Bind(SendMsg(w, n, SyncRouteReply, MarshalPeers(peerList), key, fail), LAMBDA r :
        IF r.err # Nil THEN Bye(r.w, n, pid, s, key)
        ELSE [r.w EXCEPT !.node[n].routeTable = @ \cup {pid}])))

handleSyncRouteReplyMsg(w, n, data, pid, s, fail) ==
    Bind(UnmarshalPeers(data), LAMBDA u :
    IF u.err # Nil \/ u.peers = <<>> THEN w
    ELSE Bind(u.peers[1], LAMBDA p :
        IF p.id \in w.node[n].routeTable \/ p.addrs = 0 THEN w
        ELSE Bind(Hello([w EXCEPT !.node[n].peerstore[p.id] = ProviderAddrTTL],
                        n, p.id, fail), LAMBDA r :
            IF r.err # Nil THEN r.w
            ELSE [r.w EXCEPT !.node[n].routeTable = @ \cup {p.id}])))

(* byteutils.Uint32 of the payload of a newhashmsg: the checksum it names. *)
HashData(d) == Payload(0, 4, "crc32/" \o d.body)

AppPayloads == {Payload(0, 1, "block a"), Payload(0, 1, "block b")}

Uint32Hash(data) ==
    IF \E d \in AppPayloads : HashData(d) = data
    THEN ChecksumIEEE(CHOOSE d \in AppPayloads : HashData(d) = data)
    ELSE ChecksumIEEE(data)

(* relayness.Get(key), the first half of the bookkeeping of a forwarder:   *)
(* the stream handler holds what it found until it calls Add.              *)
relaynessGet(w, n, s, key) ==
    [w EXCEPT !.streams[s].loop[n] = "add",
              !.streams[s].get[n] =
                  [key |-> key,
                   found |-> IF key \in DOMAIN w.node[n].relayness
                             THEN w.node[n].relayness[key] ELSE <<>>]]

(* relayness.Add(key, append(relayness, pid)) *)
relaynessAdd(w, n, s) ==
    Bind(w.streams[s].get[n], LAMBDA g :
        [w EXCEPT !.node[n].relayness =
                      Put(@, g.key, Append(g.found, RemotePeer(w.streams[s], n))),
                  !.streams[s].loop[n] = "run"])

(* The default case of the stream handler, up to relayness.Get. *)
handleMessage(w, n, protocol, pid, s, key) ==
    IF key \notin DOMAIN w.node[n].stream
    THEN [Bye(w, n, pid, s, key) EXCEPT !.streams[s].loop[n] = "end"]
    ELSE IF w.node[n].stream[key].conn # SOK
    THEN [Bye(w, n, pid, s, key) EXCEPT !.streams[s].loop[n] = "end"]
    ELSE Bind([name |-> protocol.msgName, from |-> Pretty(pid), data |-> protocol.data],
              LAMBDA msg :
            relaynessGet([w EXCEPT !.node[n].queue = Append(@, msg),
                                   !.last.put = Append(@, msg)],
                         n, s, protocol.dataChecksum))

handleNewHashMsg(w, n, data, pid, s) == relaynessGet(w, n, s, Uint32Hash(data))

(* What the stream has for the next read: the frame at the head of the     *)
(* inbox, or nothing when the read fails or the other end has closed.      *)
NoFrame == [head |-> <<>>, tail |-> Payload(0, 0, "")]

ReadFrame(w, n, s, fail) ==
    IF fail = "read" \/ w.streams[s].inbox[n] = <<>> THEN NoFrame
    ELSE Head(w.streams[s].inbox[n])

(* One round of the loop of streamHandler on stream s of node n. *)
streamHandler(w, n, s, fail) ==
    Bind(RemotePeer(w.streams[s], n), LAMBDA pid :
    Bind(Pretty(RemotePeer(w.streams[s], n)), LAMBDA key :
    Bind(parse(Framer(w.node[n]), ReadFrame(w, n, s, fail)), LAMBDA r :
    Bind([w EXCEPT
             !.streams[s].inbox[n] = IF @ = <<>> THEN @ ELSE Tail(@),
             !.last = [NoLast EXCEPT
                          !.op = "streamHandler", !.node = n, !.stream = s,
                          !.msgName = r.protocol.msgName, !.err = r.err,
                          !.read = r.read,
                          !.frame = ReadFrame(w, n, s, fail),
                          !.pre = IF key \in DOMAIN w.node[n].stream
                                  THEN w.node[n].stream[key] ELSE NoLast.pre]],
         LAMBDA w0 :
    IF r.err # Nil
    THEN [Bye(w0, n, pid, s, key) EXCEPT !.streams[s].loop[n] = "end"]
    ELSE CASE r.protocol.msgName = HELLO ->
                  handleHelloMsg(w0, n, r.protocol.data, pid, s, key, fail)
           [] r.protocol.msgName = OK ->
                  handleOkMsg(w0, n, r.protocol.data, pid, s, key)
           [] r.protocol.msgName = BYE -> w0
           [] r.protocol.msgName = SyncRoute ->
                  handleSyncRouteMsg(w0, n, r.protocol.data, pid, s, key, fail)
           [] r.protocol.msgName = SyncRouteReply ->
                  handleSyncRouteReplyMsg(w0, n, r.protocol.data, pid, s, fail)
           [] r.protocol.msgName = NewHashMsg ->
                  handleNewHashMsg(w0, n, r.protocol.data, pid, s)
           [] r.protocol.msgName = NetworkID ->
                  handleNetworkIDMsg(w0, n, r.protocol.data, pid, s, fail)
           [] r.protocol.msgName = NetworkIDReply ->
                  handleReNetworkIDMsg(w0, n, r.protocol.data, pid)
           [] OTHER -> handleMessage(w0, n, r.protocol, pid, s, key)))))

(* The frames a peer that does not run this code may write: frames as      *)
(* buildData makes them, and such frames with something changed.           *)
Foreign == [chainID |-> ChainID, version |-> 1]

(* One byte of the payload changed, the header left as it is. *)
CorruptData(frame) == [frame EXCEPT !.tail.body = "~" \o @]

(* One byte of the header changed, the header checksum left as it is. *)
CorruptHead(frame, i, byte) == [frame EXCEPT !.head[i] = byte]

HelloPayloads(pid) ==
    {Marshal(NewHelloMessage(String(pid), ClientVersion)),
     Marshal(NewHelloMessage(String(pid), "0.1.0")),
     Marshal(NewHelloMessage(String("L"), ClientVersion)),
     Payload(0, 2, "junk")}

SessionFrames(pid) ==
    {buildData(Foreign, d, nm) : d \in HelloPayloads(pid), nm \in {HELLO, OK}}
    \cup {buildData(Foreign, U32Data(v), NetworkID) : v \in {4, 6}}
    \cup {buildData(Foreign, U32Data(6), NetworkIDReply)}
    \cup {buildData(Foreign, d, NewBlockMsg) : d \in {Payload(0, 1, "block a")}}
    \cup {buildData(Foreign, Payload(0, 0, ""), SyncRoute)}
    \cup {buildData(Foreign, MarshalPeers(<<[id |-> "Q", addrs |-> 1]>>), SyncRouteReply)}

RelayFrames(pid) ==
    {buildData(Foreign, Marshal(NewHelloMessage(String(pid), ClientVersion)), HELLO),
     buildData(Foreign, Payload(0, 1, "block a"), NewBlockMsg),
     buildData(Foreign, HashData(Payload(0, 1, "block a")), NewHashMsg)}

GoodFrames(pid) ==
    {buildData(Foreign, Marshal(NewHelloMessage(String(pid), ClientVersion)), HELLO),
     buildData(Foreign, Payload(0, 1, "block a"), NewBlockMsg),
     buildData(Foreign, U32Data(6), NetworkID),
     buildData(Foreign, Payload(0, 0, ""), BYE)}

ParseFrames(pid) ==
    GoodFrames(pid)
    \cup {CorruptData(f) : f \in {g \in GoodFrames(pid) : g.tail.lo > 0}}
    \cup {CorruptHead(f, 1, 77) : f \in GoodFrames(pid)}
    \cup {CorruptHead(f, offsetEleven, 1) : f \in GoodFrames(pid)}
    \cup {buildData([chainID |-> c, version |-> v], Payload(0, 1, "block a"), NewBlockMsg) :
             c \in {ChainID, 258}, v \in {1, 2}}
    \cup {[f EXCEPT !.tail = Payload(0, 0, "")] : f \in GoodFrames(pid)}
    \cup {[f EXCEPT !.head = SubSeq(@, 1, offsetTwelve)] : f \in GoodFrames(pid)}

CacheFrames(pid) ==
    {buildData(Foreign, d, HELLO) :
        d \in {Marshal(NewHelloMessage(String(pid), ClientVersion)), Payload(0, 2, "junk")}}

FramesOf(w, pid) ==
    CASE w.env.frames = "parse" -> ParseFrames(pid)
      [] w.env.frames \in {"cache", "stop"} -> CacheFrames(pid)
      [] w.env.frames = "relay" -> RelayFrames(pid)
      [] OTHER -> SessionFrames(pid)

(* The faults of the network that the runs of a scenario meet. *)
Faults(w) == w.env.faults

Called(w, op, n) == [w EXCEPT !.last = [NoLast EXCEPT !.op = op, !.node = n]]

(* A node says hello to a peer. *)
DoHello ==
    \E n \in net.env.honest, pid \in net.env.peers, fail \in Faults(net) :
        /\ pid # n
        /\ Len(net.streams) < net.env.streams
        /\ \E r \in {Hello(Called(net, "Hello", n), n, pid, fail)} :
               net' = [r.w EXCEPT !.last.err = r.err]
        /\ UNCHANGED <<block, parent, pool, ret>>

(* A peer that does not run this code opens a stream to a node. *)
DoOpen ==
    \E n \in net.env.honest, pid \in net.env.peers \ net.env.honest :
        /\ Len(net.streams) < net.env.streams
        /\ net' = [net EXCEPT !.streams = Append(@, NewStream(pid, n, net.env.honest))]
        /\ UNCHANGED <<block, parent, pool, ret>>

RECURSIVE SumCount(_)
SumCount(streams) ==
    IF streams = <<>> THEN 0 ELSE Head(streams).count + SumCount(Tail(streams))

FramesWritten(w) == SumCount(w.streams)

(* Such a peer writes a frame on a stream it has with a node. *)
DoWrite ==
    \E s \in 1..Len(net.streams) :
        \E n \in net.env.honest \cap {net.streams[s].from, net.streams[s].to} :
            /\ RemotePeer(net.streams[s], n) \notin net.env.honest
            /\ net.streams[s].loop[n] = "run"
            /\ net.streams[s].inbox[n] = <<>>
            /\ net.streams[s].count < MaxFrames
            /\ FramesWritten(net) < net.env.total
            /\ \E f \in FramesOf(net, RemotePeer(net.streams[s], n)) :
                   net' = [net EXCEPT !.streams[s].inbox[n] = <<f>>,
                                      !.streams[s].count = @ + 1]
            /\ UNCHANGED <<block, parent, pool, ret>>

(* The stream handler of a node reads the next frame of a stream; a read   *)
(* ends in an error when it fails or when the other end has closed.        *)
RunHandler(n, s) ==
    /\ s \in 1..Len(net.streams)
    /\ n \in net.env.honest \cap {net.streams[s].from, net.streams[s].to}
    /\ net.streams[s].loop[n] = "run"
    /\ \E fail \in Faults(net) :
           /\ \/ net.streams[s].inbox[n] # <<>>
              \/ fail = "read"
              \/ RemotePeer(net.streams[s], n) \in net.streams[s].closed
           /\ net' = streamHandler(net, n, s, fail)
    /\ UNCHANGED <<block, parent, pool, ret>>

DoStreamHandler == \E n \in Ids, s \in 1..MaxCached : RunHandler(n, s)

(* The stream handler goes on from relayness.Get to relayness.Add. *)
RunAdd(n, s) ==
    /\ s \in 1..Len(net.streams)
    /\ n \in net.env.honest \cap {net.streams[s].from, net.streams[s].to}
    /\ net.streams[s].loop[n] = "add"
    /\ net' = relaynessAdd(net, n, s)
    /\ UNCHANGED <<block, parent, pool, ret>>

DoRelaynessAdd == \E n \in Ids, s \in 1..MaxCached : RunAdd(n, s)

(* Some part of the node sends a message to a peer. *)
DoSendMsg ==
    \E n \in net.env.honest, target \in net.env.peers, fail \in Faults(net) :
    \E m \in {[name |-> SyncRoute, data |-> Payload(0, 0, "")],
              [name |-> NetworkID, data |-> U32Data(net.node[n].config.NetworkID)],
              [name |-> NewBlockMsg, data |-> Payload(0, 1, "block a")]} :
        /\ target # n
        /\ net.sends < MaxSend
        /\ \E r \in {SendMsg(Called(net, "SendMsg", n), n, m.name, m.data, Pretty(target), fail)} :
               net' = [r.w EXCEPT !.last.err = r.err, !.last.msgName = m.name,
                                  !.last.pre = IF target \in DOMAIN net.node[n].stream
                                               THEN net.node[n].stream[target]
                                               ELSE NoLast.pre,
                                  !.last.target = Pretty(target),
                                  !.sends = @ + 1]
        /\ UNCHANGED <<block, parent, pool, ret>>

(* A node L among peers that do not run this code: peers names those that  *)
(* open streams and are said hello to.                                     *)
World(honest, networkID, bootIds, frames, faults) ==
    [node |-> [n \in honest |-> NewNode(n, networkID[n], bootIds)],
     streams |-> <<>>,
     last |-> NoLast,
     sends |-> 0,
     quit |-> [stop |-> "idle", tick |-> "run"],
     env |-> [honest |-> honest, frames |-> frames, faults |-> faults,
              threads |-> frames = "route",
              streams |-> CASE frames \in {"parse", "handshake", "route"} -> 1
                            [] frames = "cache" -> MaxCached
                            [] OTHER -> MaxStreams,
              total |-> CASE frames = "session" -> MaxFrames
                          [] frames = "cache" -> MaxCached
                          [] OTHER -> MaxStreams * MaxFrames,
              peers |-> CASE frames = "relay" -> {"P", "Q"}
                          [] frames \in {"handshake", "route"} -> honest
                          [] OTHER -> {"P"}]]

InitNet(frames, faults) ==
    /\ block = ZeroBlock
    /\ parent = TailBlock
    /\ pool = <<>>
    /\ ret = Ret("Init", Nil)
    /\ net \in {World({"L"}, [n \in {"L"} |-> 3], b, frames, faults) : b \in {{}, {"P"}}}

InitParse == InitNet("parse", {"none", "read"})

NextParse ==
    \/ DoOpen
    \/ DoWrite
    \/ DoStreamHandler
    \/ DoRelaynessAdd

SpecParse == InitParse /\ [][NextParse]_vars

InitSession == InitNet("session", {"none", "write1", "write2", "stream"})

NextSession ==
    \/ DoHello
    \/ DoOpen
    \/ DoWrite
    \/ DoStreamHandler
    \/ DoRelaynessAdd
    \/ DoSendMsg

SpecSession == InitSession /\ [][NextSession]_vars

(* The orders in which PopMin may hand out the entries of a stream cache. *)
PopOrders(cache) ==
    {o \in [1..Cardinality(cache) -> cache] :
        \A i, j \in 1..Cardinality(cache) : o[i] = o[j] => i = j}

(* One round of the loop of clearStreamStore on the entry that PopMin      *)
(* gives: the stream stored under the entry's key is closed and the key    *)
(* deleted, when the stream map has the key.                               *)
popMin(w, n, e) ==
    Bind([w EXCEPT !.node[n].streamCache = @ \ {e},
                   !.last.popped = Append(@, e)], LAMBDA w1 :
        IF e.key \in DOMAIN w1.node[n].stream
        THEN [w1 EXCEPT !.streams[w1.node[n].stream[e.key].stream].closed = @ \cup {n},
                        !.node[n].stream = Delete(@, e.key)]
        ELSE w1)

RECURSIVE popMins(_, _, _)
popMins(w, n, entries) ==
    IF entries = <<>> THEN w
    ELSE popMins(popMin(w, n, Head(entries)), n, Tail(entries))

clearStreamStore(w, n, order) ==
    IF Cardinality(w.node[n].streamCache) > StreamStoreSize
    THEN popMins(w, n, SubSeq(order, 1, Cardinality(w.node[n].streamCache) - StreamStoreSize))
    ELSE w

cleanPeerStore(w, n) ==
    [w EXCEPT !.node[n].peerstore =
        [v \in DOMAIN @ |->
            IF /\ @[v] # "none"
               /\ Pretty(v) \notin DOMAIN w.node[n].stream
               /\ Pretty(v) \notin w.node[n].bootIds
            THEN "0" ELSE @[v]]]

(* The ticker of manageStreamStore fires. *)
DoTick ==
    \E n \in net.env.honest :
        \E order \in PopOrders(net.node[n].streamCache) :
            /\ net.quit.tick = "run"
            /\ net' = cleanPeerStore(clearStreamStore(Called(net, "tick", n), n, order), n)
            /\ UNCHANGED <<block, parent, pool, ret>>

(* A peer opens streams to the node and says hello on them; the ticker     *)
(* of the stream cache fires at any time.                                  *)
InitCache == InitNet("cache", {"none"})

NextCache ==
    \/ DoOpen
    \/ DoWrite
    \/ DoStreamHandler
    \/ DoTick

SpecCache == InitCache /\ [][NextCache]_vars

(* Stop() up to its send on quitCh, a channel without buffer: the caller   *)
(* waits there until one loop takes the value.                             *)
DoStop ==
    /\ net.quit.stop = "idle"
    /\ net' = [net EXCEPT !.quit.stop = "sending"]
    /\ UNCHANGED <<block, parent, pool, ret>>

(* The select of the stream handler of node n on stream s takes the value  *)
(* that Stop is sending, and the handler returns.                          *)
QuitHandler(n, s) ==
    /\ s \in 1..Len(net.streams)
    /\ n \in net.env.honest \cap {net.streams[s].from, net.streams[s].to}
    /\ net.streams[s].loop[n] = "run"
    /\ net.quit.stop = "sending"
    /\ net' = [net EXCEPT !.streams[s].loop[n] = "end", !.quit.stop = "returned"]
    /\ UNCHANGED <<block, parent, pool, ret>>

DoQuitHandler == \E n \in Ids, s \in 1..MaxStreams : QuitHandler(n, s)

(* The select of manageStreamStore takes the value, and the loop returns.  *)
DoQuitTick ==
    /\ net.quit.tick = "run"
    /\ net.quit.stop = "sending"
    /\ net' = [net EXCEPT !.quit.tick = "end", !.quit.stop = "returned"]
    /\ UNCHANGED <<block, parent, pool, ret>>

(* A running node with streams that peers opened, on which Stop is called. *)
(* Every loop is a thread of its own that goes on when it can.             *)
InitStop == InitNet("stop", {"none"})

NextStop ==
    \/ DoOpen
    \/ DoWrite
    \/ DoStreamHandler
    \/ DoTick
    \/ DoStop
    \/ DoQuitHandler
    \/ DoQuitTick

SpecStop ==
    /\ InitStop
    /\ [][NextStop]_vars
    /\ WF_vars(DoQuitTick)
    /\ \A n \in Ids, s \in 1..MaxStreams :
           WF_vars(RunHandler(n, s)) /\ WF_vars(QuitHandler(n, s))

(* The stream handler goes on from networkIDCache.Add to its reply. *)
RunReply(n, s) ==
    /\ s \in 1..Len(net.streams)
    /\ n \in net.env.honest \cap {net.streams[s].from, net.streams[s].to}
    /\ net.streams[s].loop[n] = "reply"
    /\ net' = sendNetworkIDReply(Called(net, "reply", n), n, s, "none")
    /\ UNCHANGED <<block, parent, pool, ret>>

DoReply == \E n \in Ids, s \in 1..MaxStreams : RunReply(n, s)

(* The discovery thread of a node asks a peer for its routes. *)
DoSyncRoutes ==
    \E n \in net.env.honest, pid \in net.env.peers, fail \in Faults(net) :
        /\ pid # n
        /\ net.sends < MaxSend
        /\ net' = [SyncRoutes(Called(net, "SyncRoutes", n), n, pid, fail) EXCEPT
                      !.last.target = Pretty(pid), !.sends = @ + 1]
        /\ UNCHANGED <<block, parent, pool, ret>>

(* Two nodes that run this code, of which one says hello to the other; the *)
(* discovery thread of either runs beside its stream handler.              *)
InitRoute ==
    /\ block = ZeroBlock
    /\ parent = TailBlock
    /\ pool = <<>>
    /\ ret = Ret("Init", Nil)
    /\ net \in {World({"L", "P"}, [n \in {"L", "P"} |-> IF n = "L" THEN 3 ELSE v],
                      b, "route", {"none"}) :
                    v \in NetworkIDs, b \in {{}, {"P"}}}

NextRoute ==
    \/ DoHello
    \/ DoStreamHandler
    \/ DoReply
    \/ DoSyncRoutes

SpecRoute == InitRoute /\ [][NextRoute]_vars

(* Peers P and Q forward the same block to the node. *)
InitRelay == InitNet("relay", {"none"})

NextRelay ==
    \/ DoOpen
    \/ DoWrite
    \/ DoStreamHandler
    \/ DoRelaynessAdd

SpecRelay == InitRelay /\ [][NextRelay]_vars

ErrDataChecksum == "parse protocol, data verification occurs error, dataChecksum is error"

ErrVerifyHeader == "parse protocol, verify header occurs error"

(* The node and the stream of the last run of the stream handler. *)
LastNode == net.node[net.last.node]

LastStream == net.streams[net.last.stream]

LastPeer == RemotePeer(LastStream, net.last.node)

(* The last run was a round of a stream handler. *)
Handled == net.last.op = "streamHandler"

(* The round said Bye and was the last of its loop. *)
LoopEnded ==
    /\ net.last.bye
    /\ net.last.node \in LastStream.closed
    /\ LastStream.loop[net.last.node] = "end"

(* The frames the node takes: those parse returns without error. *)
ValidFrame(f) == parse(Framer(LastNode), f).err = Nil

(* C21: when the stream handler reads a frame that is a valid frame with   *)
(* one byte of its payload changed and its header as it was, parse fails   *)
(* on the comparison of the data checksum, the handler says Bye (the       *)
(* stream is closed) and its loop ends; nothing of the frame reaches the   *)
(* dispatcher.                                                             *)
C21_CorruptPayloadEndsStream ==
    (Handled /\ \E g \in FramesOf(net, LastPeer) :
                    /\ ValidFrame(g)
                    /\ g.tail.lo > 0
                    /\ net.last.frame = CorruptData(g)) =>
        /\ net.last.err = ErrDataChecksum
        /\ LoopEnded
        /\ net.last.put = <<>>
        /\ net.last.wrote = <<>>

C21_Witness ==
    /\ Handled
    /\ net.last.frame =
           CorruptData(buildData(Foreign, Payload(0, 1, "block a"), NewBlockMsg))
    /\ net.last.pre.conn = SOK
    /\ net.last.err = ErrDataChecksum
    /\ LoopEnded
    /\ LastNode.queue = <<>>

(* The header of the frame has the magic number 4E 45 42 31, the chain id  *)
(* and the version of the node that read it, and the checksum of its first *)
(* 32 bytes in its last four.                                              *)
HeaderAccepted(f, nd) ==
    /\ SubSeq(f.head, 1, 4) = <<78, 69, 66, 49>>
    /\ SubSeq(f.head, 5, 8) = FromUint32Bytes(nd.config.ChainID)
    /\ f.head[12] = nd.version
    /\ SubSeq(f.head, 33, 36) = FromUint32Bytes(ChecksumIEEE(SubSeq(f.head, 1, 32)))

(* C22: parse returns without error only for a header with the magic      *)
(* number, the local chain id, the local version and the checksum of its   *)
(* bytes 0..32; for a header that fails one of them it returns the header  *)
(* error having asked the stream for the 36 bytes of the header only, and  *)
(* the stream handler says Bye and ends.                                   *)
C22_HeaderVerifiedBeforePayload ==
    (Handled /\ Len(net.last.frame.head) = offsetThirtySix) =>
        /\ net.last.err = Nil => HeaderAccepted(net.last.frame, LastNode)
        /\ ~HeaderAccepted(net.last.frame, LastNode) =>
              /\ net.last.err = ErrVerifyHeader
              /\ net.last.read = <<offsetThirtySix>>
              /\ LoopEnded
              /\ net.last.put = <<>>

C22_Witness ==
    /\ Handled
    /\ net.last.frame = buildData([chainID |-> 258, version |-> 1],
                                  Payload(0, 1, "block a"), NewBlockMsg)
    /\ net.last.err = ErrVerifyHeader
    /\ net.last.read = <<offsetThirtySix>>
    /\ net.last.pre.conn = SOK
    /\ LoopEnded

(* The step is a round of the stream handler of node n on stream s. *)
HandlerStep(n, s) ==
    /\ s \in 1..Len(net.streams)
    /\ n \in DOMAIN net.streams[s].loop
    /\ net.streams[s].loop[n] = "run"
    /\ net'.last.op = "streamHandler"
    /\ net'.last.node = n
    /\ net'.last.stream = s
    /\ \/ net'.last # net.last
       \/ net'.streams[s].inbox[n] # net.streams[s].inbox[n]

(* C23: a round of a stream handler in which parse fails closes the        *)
(* stream, leaves no stream stored under the peer's key, sets the TTL of   *)
(* the peer's addresses to 0, takes the peer out of the routing table      *)
(* unless it is a boot node, whose entry stays as it was, and ends the     *)
(* loop with nothing handed to the dispatcher and nothing else changed.    *)
C23_ParseFailureSaysBye ==
    [][\A n \in net.env.honest, s \in 1..MaxStreams :
          (HandlerStep(n, s) /\ net'.last.err # Nil) =>
              LET pid == RemotePeer(net.streams[s], n)
                  old == net.node[n]
                  new == net'.node[n]
              IN  /\ n \in net'.streams[s].closed
                  /\ net'.streams[s].loop[n] = "end"
                  /\ Pretty(pid) \notin DOMAIN new.stream
                  /\ \A k \in DOMAIN old.stream \ {Pretty(pid)} :
                         k \in DOMAIN new.stream /\ new.stream[k] = old.stream[k]
                  /\ new.peerstore = [old.peerstore EXCEPT ![pid] = "0"]
                  /\ new.routeTable =
                         IF Pretty(pid) \in old.bootIds
                         THEN old.routeTable ELSE old.routeTable \ {pid}
                  /\ new.queue = old.queue
                  /\ new.relayness = old.relayness
                  /\ net'.last.bye
                  /\ net'.last.put = <<>>
                  /\ net'.last.wrote = <<>>]_vars

C23_Witness ==
    /\ Handled
    /\ net.last.err = ErrVerifyHeader
    /\ net.last.pre.conn = SOK
    /\ LastPeer \in LastNode.bootIds
    /\ LastPeer \in LastNode.routeTable
    /\ LastNode.peerstore[LastPeer] = "0"
    /\ LastPeer \notin DOMAIN LastNode.stream
    /\ LoopEnded

(* The names of the frames the last run wrote, in the order of writing. *)
WroteNames(w) == [i \in 1..Len(w.last.wrote) |-> w.last.wrote[i].msgName]

(* Node n has said Bye to the peer of stream s: the stream is closed, no   *)
(* stream is stored under the peer's key.                                  *)
SaidBye(w, n, s) ==
    /\ w.last.bye
    /\ n \in w.streams[s].closed
    /\ Pretty(RemotePeer(w.streams[s], n)) \notin DOMAIN w.node[n].stream

(* Node n holds stream s in state OK for the peer of the stream. *)
Registered(w, n, s) ==
    LET key == Pretty(RemotePeer(w.streams[s], n))
    IN  /\ key \in DOMAIN w.node[n].stream
        /\ w.node[n].stream[key] = [key |-> key, conn |-> SOK, stream |-> s]
        /\ [key |-> key, conn |-> SOK, stream |-> s] \in w.node[n].streamCache
        /\ RemotePeer(w.streams[s], n) \in w.node[n].routeTable

(* C24: a round of the stream handler that reads a hello whose NodeID is   *)
(* the remote peer of the stream and whose client version is ClientVersion *)
(* writes an ok frame and then a networkid frame with the local network    *)
(* id on the stream, and when both writes have succeeded holds the stream  *)
(* in state OK in the stream map and the stream cache with the peer in the *)
(* routing table.  When a write fails, or the hello has another NodeID,    *)
(* another client version or a payload that cannot be decoded, the round   *)
(* says Bye, stores no stream for the peer and leaves the stream cache as  *)
(* it was.                                                                 *)
C24_HelloHandshake ==
    [][\A n \in net.env.honest, s \in 1..MaxStreams :
          (HandlerStep(n, s) /\ net'.last.err = Nil /\ net'.last.msgName = HELLO) =>
              LET pid == RemotePeer(net.streams[s], n)
                  good == net'.last.frame.tail =
                              Marshal([NodeID |-> String(pid), ClientVersion |-> "0.2.0"])
              IN  /\ (good /\ Len(net'.last.wrote) = 2) =>
                         /\ WroteNames(net') = <<OK, NetworkID>>
                         /\ \A i \in 1..2 : net'.last.wrote[i].stream = s
                         /\ net'.last.wrote[1].data =
                                Marshal([NodeID |-> String(n), ClientVersion |-> "0.2.0"])
                         /\ net'.last.wrote[2].data = U32Data(net.node[n].config.NetworkID)
                         /\ Registered(net', n, s)
                         /\ ~net'.last.bye
                  /\ ~good => net'.last.wrote = <<>>
                  /\ (~good \/ Len(net'.last.wrote) < 2) =>
                         /\ SaidBye(net', n, s)
                         /\ net'.node[n].streamCache = net.node[n].streamCache
                         /\ WroteNames(net') \in {<<>>, <<OK>>}
                  /\ Len(net'.last.wrote) <= 2]_vars

C24_Witness ==
    /\ Handled
    /\ net.last.msgName = HELLO
    /\ WroteNames(net) = <<OK, NetworkID>>
    /\ Registered(net, net.last.node, net.last.stream)
    /\ net.last.pre.conn = SNC

(* Node n is handshaking on stream s: it opened the stream with Hello,     *)
(* which wrote hello on it, and had not stored it in state OK when the     *)
(* round began.                                                            *)
Handshaking(w, n, s) ==
    /\ w.streams[s].from = n
    /\ ~(w.last.pre.conn = SOK /\ w.last.pre.stream = s)

(* C25: after a round of the stream handler that read an ok, the stream is *)
(* held in state OK only if the node was handshaking on it and the ok      *)
(* carries the remote peer's id as NodeID and the local client version;    *)
(* an ok read when the node was not handshaking on the stream, or with     *)
(* another NodeID or client version, ends in Bye: the stream closed and no *)
(* stream stored for the peer.                                             *)
C25_OkOnlyWhileHandshaking ==
    (Handled /\ net.last.msgName = OK /\ net.last.err = Nil) =>
        LET n == net.last.node
            s == net.last.stream
            good == net.last.frame.tail =
                        Marshal([NodeID |-> String(LastPeer), ClientVersion |-> "0.2.0"])
        IN  /\ Registered(net, n, s) => (Handshaking(net, n, s) /\ good)
            /\ ~(Handshaking(net, n, s) /\ good) => SaidBye(net, n, s)

(* An ok on a stream that the peer opened, on which the node never wrote   *)
(* hello, has put the stream in state OK.                                  *)
C25_Witness ==
    /\ Handled
    /\ net.last.msgName = OK
    /\ LastStream.from = LastPeer
    /\ LastStream.count = 1
    /\ net.last.pre.conn = SNC
    /\ Registered(net, net.last.node, net.last.stream)
    /\ ~net.last.bye

(* The names that the stream handler handles itself. *)
ControlNames ==
    {HELLO, OK, BYE, SyncRoute, SyncRouteReply, NewHashMsg, NetworkID, NetworkIDReply}

(* C26: a round of the stream handler that reads a message with another    *)
(* name on a stream that the node did not hold in state OK when the round  *)
(* began hands nothing to the dispatcher and starts no relayness entry; it *)
(* says Bye and ends the loop.                                             *)
C26_NoDeliveryBeforeHandshake ==
    (/\ Handled
     /\ net.last.err = Nil
     /\ net.last.msgName \notin ControlNames
     /\ ~(net.last.pre.conn = SOK /\ net.last.pre.stream = net.last.stream)) =>
        /\ net.last.put = <<>>
        /\ LastStream.loop[net.last.node] = "end"
        /\ SaidBye(net, net.last.node, net.last.stream)

(* The first frame of a stream, a block, has gone to the dispatcher: the   *)
(* node held another stream of the same peer in state OK.                  *)
C26_Witness ==
    /\ Handled
    /\ net.last.msgName = NewBlockMsg
    /\ LastStream.count = 1
    /\ LastStream.from = LastPeer
    /\ net.last.pre.conn = SOK
    /\ net.last.pre.stream # net.last.stream
    /\ Len(net.last.put) = 1
    /\ LastStream.loop[net.last.node] = "add"
    /\ ~net.last.bye

(* Bit b (1, 2, 4) is set in the mask x. *)
BitSet(x, b) == (x \div b) % 2 = 1

(* The node has cached a network id for the target that has a bit in       *)
(* common with its own.                                                    *)
SameNetwork(nd, target) ==
    /\ target \in DOMAIN nd.networkIDCache
    /\ \E b \in {1, 2, 4} :
           BitSet(nd.config.NetworkID, b) /\ BitSet(nd.networkIDCache[target], b)

(* C28: a call of SendMsg with a name other than networkid, for a target   *)
(* without a cached network id or with one that shares no bit with the     *)
(* local network id, returns an error and writes nothing; so does a call   *)
(* for a target for which no stream is stored.  A call that returns no     *)
(* error has written the one frame on the stream stored for the target.    *)
C28_SendMsgGated ==
    net.last.op = "SendMsg" =>
        /\ (net.last.msgName # NetworkID /\ ~SameNetwork(LastNode, net.last.target)) =>
               (net.last.err # Nil /\ net.last.wrote = <<>>)
        /\ net.last.pre.conn = SNC => (net.last.err # Nil /\ net.last.wrote = <<>>)
        /\ net.last.err # Nil => net.last.wrote = <<>>
        /\ net.last.err = Nil =>
               /\ Len(net.last.wrote) = 1
               /\ net.last.wrote[1].stream = net.last.pre.stream
               /\ net.last.wrote[1].msgName = net.last.msgName
        /\ ~net.last.bye

(* Local mask 0011, cached mask 0100 for a peer whose stream is held in    *)
(* state OK: a syncroute is refused.                                       *)
C28_Witness ==
    /\ net.last.op = "SendMsg"
    /\ net.last.msgName = SyncRoute
    /\ net.last.target = "P"
    /\ LastNode.config.NetworkID = 3
    /\ "P" \in DOMAIN LastNode.networkIDCache
    /\ LastNode.networkIDCache["P"] = 4
    /\ net.last.pre.conn = SOK
    /\ net.last.err = "can not send message, target node is not in the same network"
    /\ net.last.wrote = <<>>

(* Two nodes that run this code, L and P, of which one says hello to the   *)
(* other; every frame written is delivered.  Each stream handler is a      *)
(* thread of its own that goes on whenever its stream has a frame for it.  *)
InitHandshake ==
    /\ block = ZeroBlock
    /\ parent = TailBlock
    /\ pool = <<>>
    /\ ret = Ret("Init", Nil)
    /\ net \in {World({"L", "P"}, [n \in {"L", "P"} |-> IF n = "L" THEN 3 ELSE v],
                      b, "handshake", {"none"}) :
                    v \in NetworkIDs, b \in {{}, {"P"}}}

NextHandshake ==
    \/ DoHello
    \/ DoStreamHandler
    \/ DoRelaynessAdd
    \/ DoSendMsg

SpecHandshake ==
    /\ InitHandshake
    /\ [][NextHandshake]_vars
    /\ \A n \in Ids, s \in 1..MaxStreams :
           WF_vars(RunHandler(n, s)) /\ WF_vars(RunAdd(n, s))

(* Node a has said hello to node b: Hello opened a stream and returned     *)
(* without error.                                                          *)
HelloSent(a, b) ==
    \E s \in 1..Len(net.streams) :
        /\ net.streams[s].from = a
        /\ net.streams[s].to = b
        /\ net.streams[s].loop[a] # "none"

(* The network ids of a and b have a bit in common. *)
Intersecting(a, b) ==
    \E bit \in {1, 2, 4} :
        BitSet(net.node[a].config.NetworkID, bit) /\ BitSet(net.node[b].config.NetworkID, bit)

(* Both nodes hold the stream that a opened in state OK, and each has      *)
(* cached the network id of the other.                                     *)
Established(a, b) ==
    \E s \in 1..Len(net.streams) :
        /\ net.streams[s].from = a
        /\ net.streams[s].to = b
        /\ Registered(net, a, s)
        /\ Registered(net, b, s)
        /\ Pretty(b) \in DOMAIN net.node[a].networkIDCache
        /\ net.node[a].networkIDCache[Pretty(b)] = net.node[b].config.NetworkID
        /\ Pretty(a) \in DOMAIN net.node[b].networkIDCache
        /\ net.node[b].networkIDCache[Pretty(a)] = net.node[a].config.NetworkID

Quiet == \A s \in 1..Len(net.streams) :
             \A x \in DOMAIN net.streams[s].inbox : net.streams[s].inbox[x] = <<>>

(* The network id that the frame read in the last round carries. *)
FrameNetworkID(nd, frame) == Uint32Data(parse(Framer(nd), frame).protocol.data)

(* C29: a round of a stream handler that reads a networkid message caches  *)
(* the network id of the sender under the sender's key and writes exactly  *)
(* one message, a renetworkid with the node's own network id, on the same  *)
(* stream; a round that reads a renetworkid message caches the sender's    *)
(* network id and writes nothing; and between two nodes that run this code *)
(* the exchange ends: from some time on no frame is left to be read.       *)
C29_NetworkIDExchangeEnds ==
    /\ [][\A n \in net.env.honest, s \in 1..MaxStreams :
            (/\ HandlerStep(n, s)
             /\ net'.last.err = Nil
             /\ net'.last.msgName \in {NetworkID, NetworkIDReply}) =>
                LET pid == RemotePeer(net.streams[s], n)
                    id == FrameNetworkID(net.node[n], net'.last.frame)
                    reply == [stream |-> s, msgName |-> NetworkIDReply,
                              data |-> U32Data(net.node[n].config.NetworkID)]
                IN  /\ net'.node[n].networkIDCache =
                           Put(net.node[n].networkIDCache, Pretty(pid), id)
                    /\ id \in NetworkIDs
                    /\ net'.streams[s].inbox[n] = Tail(net.streams[s].inbox[n])
                    /\ IF net'.last.msgName = NetworkID /\ n \notin net.streams[s].closed
                       THEN /\ net'.last.wrote = <<reply>>
                            /\ net'.streams[s].inbox[pid] =
                                   Append(net.streams[s].inbox[pid],
                                          buildData(Framer(net.node[n]), reply.data,
                                                    NetworkIDReply))
                       ELSE /\ net'.last.wrote = <<>>
                            /\ net'.streams[s].inbox[pid] = net.streams[s].inbox[pid]]_vars
    /\ <>[]Quiet

(* The node that was said hello to has read the renetworkid of the other   *)
(* node, cached its network id and written nothing; no frame is left.      *)
C29_Witness ==
    /\ Handled
    /\ net.last.node = "P"
    /\ net.last.msgName = NetworkIDReply
    /\ net.last.wrote = <<>>
    /\ net.node["P"].config.NetworkID = 6
    /\ "L" \in DOMAIN net.node["P"].networkIDCache
    /\ net.node["P"].networkIDCache["L"] = 3
    /\ "P" \in DOMAIN net.node["L"].networkIDCache
    /\ net.node["L"].networkIDCache["P"] = 6
    /\ Quiet

(* The checksum of the block that the peers forward. *)
RelayKey == ChecksumIEEE(Payload(0, 1, "block a"))

(* The handler of node n on stream s has done the bookkeeping of a payload *)
(* with checksum k that the peer of the stream delivered: Get and Add.     *)
Delivered(n, s, k) ==
    /\ s \in 1..Len(net.streams)
    /\ n \in DOMAIN net.streams[s].loop
    /\ net.streams[s].loop[n] # "add"
    /\ net.streams[s].get[n].key = k
    /\ net.streams[s].get[n] # NewStream("P", "L", {"L"}).get["L"]

(* Peer pid is in the relayness entry of node n for checksum k. *)
Forwarder(n, k, pid) ==
    /\ k \in DOMAIN net.node[n].relayness
    /\ \E i \in 1..Len(net.node[n].relayness[k]) : net.node[n].relayness[k][i] = pid

(* C30: whenever peers have each delivered to a node, on streams of their  *)
(* own, an application payload with the same data checksum or a newhashmsg *)
(* that names it, and the stream handlers have done their bookkeeping, in  *)
(* whatever order their steps were taken, the relayness entry of the       *)
(* checksum holds every one of these peers.                                *)
C30_NoForwarderLost ==
    \A n \in net.env.honest, s \in 1..MaxStreams :
        Delivered(n, s, RelayKey) =>
            Forwarder(n, RelayKey, RemotePeer(net.streams[s], n))

(* P and Q have both delivered the block, both handlers have run Get and   *)
(* Add, and the entry of its checksum names one of them only.              *)
C30_Witness ==
    /\ Len(net.streams) = 2
    /\ {net.streams[1].from, net.streams[2].from} = {"P", "Q"}
    /\ Delivered("L", 1, RelayKey)
    /\ Delivered("L", 2, RelayKey)
    /\ Len(net.node["L"].queue) = 2
    /\ Len(net.node["L"].relayness[RelayKey]) = 1

(* The entries that the last tick took out of the stream cache. *)
Evicted(w) == {w.last.popped[i] : i \in 1..Len(w.last.popped)}

(* C31: after the clearStreamStore of a tick the stream cache holds at     *)
(* most StreamStoreSize entries; the stream of every entry the tick took   *)
(* out is closed and the entry's key is no longer in the stream map; and   *)
(* every stream of which no entry was taken out is as open as before and   *)
(* stays in the stream map when it was there.                              *)
C31_EvictionClosesOwnStream ==
    [][\A n \in net.env.honest :
          (net'.last.op = "tick" /\ net'.last.node = n) =>
              /\ Cardinality(net'.node[n].streamCache) <= StreamStoreSize
              /\ \A e \in Evicted(net') :
                     /\ n \in net'.streams[e.stream].closed
                     /\ e.key \notin DOMAIN net'.node[n].stream
              /\ \A s \in 1..Len(net.streams) :
                     (\A e \in Evicted(net') : e.stream # s) =>
                         /\ net'.streams[s].closed = net.streams[s].closed
                         /\ \A k \in DOMAIN net.node[n].stream :
                                net.node[n].stream[k].stream = s =>
                                    /\ k \in DOMAIN net'.node[n].stream
                                    /\ net'.node[n].stream[k] = net.node[n].stream[k]]_vars

(* A tick has taken the entry of stream 1 out of the cache; the node has   *)
(* not closed stream 1 but has closed stream 3, whose entry is still in    *)
(* the cache.                                                              *)
C31_Witness ==
    /\ net.last.op = "tick"
    /\ Len(net.streams) = 3
    /\ \E e \in Evicted(net) : e.stream = 1
    /\ \A e \in Evicted(net) : e.stream # 3
    /\ "L" \notin net.streams[1].closed
    /\ "L" \in net.streams[3].closed
    /\ \E e \in net.node["L"].streamCache : e.stream = 3

(* The stream handler of node n on stream s is in its loop. *)
Running(n, s) ==
    /\ s \in 1..Len(net.streams)
    /\ n \in net.env.honest \cap DOMAIN net.streams[s].loop
    /\ net.streams[s].loop[n] = "run"

(* C32: when Stop has been called, Stop returns at some time, and every    *)
(* stream handler loop that was running when it was called, and the loop   *)
(* of the maintenance tick, end at some time.                              *)
C32_StopEndsAllLoops ==
    /\ (net.quit.stop = "sending") ~> (net.quit.stop = "returned")
    /\ (net.quit.stop = "sending" /\ net.quit.tick = "run") ~> (net.quit.tick = "end")
    /\ \A n \in Ids, s \in 1..MaxStreams :
           (net.quit.stop = "sending" /\ Running(n, s)) ~> ~Running(n, s)

(* Stop has returned: the maintenance loop took the value, and the two     *)
(* stream handlers are still in their loops.                               *)
C32_Witness ==
    /\ net.quit.stop = "returned"
    /\ net.quit.tick = "end"
    /\ Len(net.streams) = 2
    /\ net.streams[1].loop["L"] = "run"
    /\ net.streams[2].loop["L"] = "run"

(* Node n holds stream s in state OK in the stream map under the key of    *)
(* the peer of the stream.                                                 *)
Holds(w, n, s) ==
    LET key == Pretty(RemotePeer(w.streams[s], n))
    IN  /\ key \in DOMAIN w.node[n].stream
        /\ w.node[n].stream[key] = NewStreamStore(key, SOK, s)

(* C33: a round of the stream handler of one stream that ends in Bye       *)
(* leaves every other stream of the same peer that the node holds in state *)
(* OK in the stream map, and leaves it open.                               *)
C33_ByeLeavesOtherStream ==
    [][\A n \in net.env.honest, s \in 1..MaxStreams, t \in 1..MaxStreams :
          (/\ HandlerStep(n, s)
           /\ net'.last.bye
           /\ t \in 1..Len(net.streams)
           /\ t # s
           /\ n \in DOMAIN net.streams[t].loop
           /\ RemotePeer(net.streams[t], n) = RemotePeer(net.streams[s], n)
           /\ Holds(net, n, t)
           /\ n \notin net.streams[t].closed) =>
              /\ Holds(net', n, t)
              /\ n \notin net'.streams[t].closed]_vars

(* A hello with a wrong client version on stream 2 has ended in Bye while  *)
(* the node held stream 1 of the same peer in state OK: stream 1 is open   *)
(* and no longer in the stream map.                                        *)
C33_Witness ==
    /\ Handled
    /\ net.last.stream = 2
    /\ net.last.msgName = HELLO
    /\ net.last.bye
    /\ net.last.pre = NewStreamStore("P", SOK, 1)
    /\ LastPeer = "P"
    /\ "P" \notin DOMAIN LastNode.stream
    /\ LastNode.peerstore["P"] = "0"
    /\ "L" \notin net.streams[1].closed
    /\ net.streams[1].loop["L"] = "run"

(* node.config.MaxSyncNodes in these runs *)
MaxSyncNodes == 1

(* C34: a round of a stream handler that reads a syncroute from a peer     *)
(* for which the node holds the stream in state OK and whose network id    *)
(* has a bit in common with its own does not end in Bye: it writes one     *)
(* resyncroute with at most MaxSyncNodes peer records, each with an        *)
(* address, and then has the peer in the routing table; whatever the order *)
(* of the steps of the peer's stream handler and of its discovery thread   *)
(* that called SyncRoutes.                                                 *)
C34_SyncRouteAnswered ==
    [][\A n \in net.env.honest, s \in 1..MaxStreams :
          (/\ HandlerStep(n, s)
           /\ net'.last.err = Nil
           /\ net'.last.msgName = SyncRoute
           /\ RemotePeer(net.streams[s], n) \in net.env.honest
           /\ Holds(net, n, s)
           /\ Intersecting(n, RemotePeer(net.streams[s], n))) =>
              /\ ~net'.last.bye
              /\ WroteNames(net') = <<SyncRouteReply>>
              /\ LET u == UnmarshalPeers(net'.last.wrote[1].data)
                 IN  /\ u.err = Nil
                     /\ Len(u.peers) <= MaxSyncNodes
                     /\ \A i \in 1..Len(u.peers) : u.peers[i].addrs >= 1
              /\ RemotePeer(net.streams[s], n) \in net'.node[n].routeTable]_vars

(* P, which holds the stream of L in state OK, has read the syncroute that *)
(* L wrote between caching P's network id and writing its renetworkid: P   *)
(* has no network id of L yet, writes nothing and says Bye.                *)
C34_Witness ==
    /\ Handled
    /\ net.last.node = "P"
    /\ net.last.msgName = SyncRoute
    /\ net.last.pre = NewStreamStore("L", SOK, 1)
    /\ Intersecting("L", "P")
    /\ "L" \notin DOMAIN net.node["P"].networkIDCache
    /\ net.last.bye
    /\ net.last.wrote = <<>>

(* C35: LoadBlockFromStorage gives either a block that is sealed, whose    *)
(* account state, txs and events views are opened at the roots in its      *)
(* header and whose DPoS context is the one of the header, with no error,  *)
(* or no block with an error, never no block and no error; ParentBlock     *)
(* gives either a block with no error or no block with                     *)
(* ErrMissingParentBlock.                                                  *)
C35_LoadGivesBlockOrError ==
    /\ ret.op = "LoadBlockFromStorage" =>
           IF ret.err = Nil
           THEN /\ ret.argId # Nil
                /\ block.id = ret.argId
                /\ block.sealed
                /\ block.accState = OpenAt(block.header.stateRoot)
                /\ block.txsTrie = OpenAt(block.header.txsRoot)
                /\ block.eventsTrie = OpenAt(block.header.eventsRoot)
                /\ block.dposContext = DposFromProto(block.header.dposContext)
           ELSE ret.argId = Nil
    /\ ret.op = "ParentBlock" =>
           \/ ret.argId # Nil /\ ret.err = Nil
           \/ ret.argId = Nil /\ ret.err = ErrMissingParentBlock

(* ParentBlock of a block that was loaded from storage, and so holds no    *)
(* parent, has returned no block and no error.                             *)
C35_Witness ==
    /\ ret.op = "ParentBlock"
    /\ block.sealed
    /\ block.parenetBlock = Nil
    /\ ret.argId = Nil
    /\ ret.err = Nil

(* C36: a Seal of an unsealed block that returns the error of              *)
(* recordMintCnt or of DposContext.ToProto leaves the block unsealed, its  *)
(* header roots and hash as they were, and the root hashes of the four     *)
(* overlays, and with them the mint count of the miner, as they were.      *)
C36_FailedSealChangesNothing ==
    [][(/\ ret'.op = "Seal"
        /\ ret'.err \in {"ErrStorage", "ErrToProto"}
        /\ ~block.sealed) =>
           /\ ~block'.sealed
           /\ block'.header.stateRoot = block.header.stateRoot
           /\ block'.header.txsRoot = block.header.txsRoot
           /\ block'.header.eventsRoot = block.header.eventsRoot
           /\ block'.header.dposContext = block.header.dposContext
           /\ block'.header.hash = block.header.hash
           /\ RootHash(block'.accState) = RootHash(block.accState)
           /\ RootHash(block'.txsTrie) = RootHash(block.txsTrie)
           /\ RootHash(block'.eventsTrie) = RootHash(block.eventsTrie)
           /\ DposRootHash(block'.dposContext) = DposRootHash(block.dposContext)
           /\ MintCnt(block') = MintCnt(block)]_vars

(* After a Seal that failed in ToProto and a Seal that succeeded the block *)
(* is counted twice for its miner.                                         *)
C36_Witness ==
    /\ ret.op = "Seal"
    /\ ret.err = Nil
    /\ block.sealed
    /\ block.id # Nil
    /\ MintCnt(block) = MintCnt([block EXCEPT !.dposContext = parent.dposContext]) + 2

(* No batch is open on the overlay, and no BeginBatch was called on it     *)
(* with a batch open and no Commit or RollBack with none.                  *)
Closed(t) == ~t.batch /\ ~t.misuse

(* C37: when NewBlock, CollectTransactions, Seal or VerifyExecution has    *)
(* returned, no batch is open on any of the four overlays of the block,    *)
(* and in the calls so far every begin() was made with no batch open and   *)
(* was followed by one commit() or rollback() on all four overlays before  *)
(* the next begin().                                                       *)
C37_BatchDiscipline ==
    /\ Closed(block.accState)
    /\ Closed(block.txsTrie)
    /\ Closed(block.eventsTrie)
    /\ Closed(block.dposContext)

(* VerifyExecution of a block with a transaction has failed and rolled     *)
(* back, after the block was made, filled and sealed.                      *)
C37_Witness ==
    /\ ret.op = "VerifyExecution"
    /\ ret.err # Nil
    /\ block.sealed
    /\ Len(block.transactions) > 0
    /\ Usable(block)
    /\ C37_BatchDiscipline

====
